---- MODULE Spec2Model ----
(***************************************************************************)
(* GstBaseAudioSink (gst-libs/gst/audio/gstbaseaudiosink.c): the renderer  *)
(* that maps buffer timestamps to ring-buffer sample positions, the clock  *)
(* it provides, its latency reporting and its lifecycle.                   *)
(*                                                                         *)
(* Times are nanoseconds, positions are samples.  The value -1 is the      *)
(* code's "none" (GST_CLOCK_TIME_NONE, next_sample == -1, avg_skew == -1). *)
(* All quantities are kept below 2^31, where the code's 64-bit arithmetic  *)
(* does not wrap.                                                          *)
(***************************************************************************)
EXTENDS Integers, Sequences, FiniteSets, TLC

(* ------------------------------------------------------------------ *)
(* Program constants                                                   *)
(* ------------------------------------------------------------------ *)
GST_SECOND == 1000000000
GST_USECOND == 1000
NONE == -1
DIFF_TOLERANCE == 2
SKEW_WEIGHT == 31
SKEW_WINDOW == 32

(* ------------------------------------------------------------------ *)
(* Bounds of the explored behaviours                                   *)
(* ------------------------------------------------------------------ *)
\* number of buffers the streaming thread hands to render
MaxBuffers == 2
\* number of commit calls one render makes (it commits again after every preroll wait)
MaxCommits == 2
\* number of segments the device consumes
MaxSegdone == 1
\* number of ticks of the foreign pipeline clock
MaxExtTicks == 1
\* latest buffer timestamp upstream produces, in ns
TsLimit == 1500000000
\* buffers rendered while the clocks drift apart
MaxSkewRounds == 6
\* buffers rendered while the clocks stand still
MaxConstRounds == 44

(* ------------------------------------------------------------------ *)
(* Input sets                                                          *)
(* ------------------------------------------------------------------ *)
\* ring buffer formats the device accepts (the GstRingBufferSpec after acquire)
Formats ==
  { [rate |-> 44100, bytes_per_sample |-> 4, segsize |-> 4096, segtotal |-> 8, seglatency |-> 2] }
\* buffers upstream sends: size in bytes (4410 frames, 1024 frames, or no whole number
\* of frames), whether it carries a timestamp, the distance of that timestamp from the
\* end of the previous buffer, and the DISCONT flag
Buf(size, timed, gap, discont) ==
  [size |-> size, timed |-> timed, gap |-> gap, discont |-> discont]
Buffers ==
  { Buf(17640, TRUE, 0, FALSE), Buf(4096, TRUE, 0, FALSE),
    Buf(17640, TRUE, 10000000, FALSE), Buf(17640, TRUE, -10000000, FALSE),
    Buf(17640, TRUE, 500000000, FALSE), Buf(4096, TRUE, 10000000, TRUE),
    Buf(4098, TRUE, 0, FALSE), Buf(17640, FALSE, 0, FALSE) }
\* one tick of the foreign pipeline clock, in ns
ExtTick == 12000 * GST_USECOND
\* samples queued in the device and not yet audible
Delays == { 0, 512 }
\* pipeline segments: <<start, stop, rate>> (stop NONE = open ended)
Segments ==
  { [start |-> 0, stop |-> NONE, rate |-> 1],
    [start |-> 50000000, stop |-> 150000000, rate |-> 1] }
\* what the pipeline distributes: <<clock, base time, latency>>
Configs ==
  { <<"null", 0, 0>>, <<"provided", 0, 0>>, <<"other", 0, 0>>, <<"other", 20000000, 10000000>> }
\* what gst_base_sink_query_latency answers: <<res, live, us_live, min_l, max_l>>
QueryAnswers ==
  { <<FALSE, FALSE, FALSE, 0, NONE>>, <<TRUE, FALSE, FALSE, 0, NONE>>,
    <<TRUE, TRUE, FALSE, 0, NONE>>, <<TRUE, TRUE, TRUE, 0, NONE>>,
    <<TRUE, TRUE, TRUE, 10000000, 0>>, <<TRUE, TRUE, TRUE, 10000000, NONE>>,
    <<TRUE, TRUE, TRUE, 0, 20000000>> }
SlaveMethods == { "resample", "skew", "none" }
Clocks == { "null", "provided", "other" }

(* ------------------------------------------------------------------ *)
(* Arithmetic helpers                                                  *)
(* ------------------------------------------------------------------ *)
Min(a, b) == IF a < b THEN a ELSE b
Abs(a) == IF a < 0 THEN -a ELSE a

\* C integer division (truncates toward zero)
CDiv(a, b) == IF a >= 0 THEN a \div b ELSE -((-a) \div b)

\* <<q, r>> with val * num = q * denom + r and 0 <= r < denom, by binary long
\* multiplication over num so that no intermediate value leaves the 32-bit range
\* (the half product is bound once per level, so that the recursion stays linear)
RECURSIVE ScaleQR(_, _, _)
ScaleQR(val, num, denom) ==
  IF num = 0 THEN <<0, 0>>
  ELSE CHOOSE qr \in
         { LET q2 == 2 * h[1] + ((2 * h[2]) \div denom)
               r2 == (2 * h[2]) % denom
           IN  IF num % 2 = 0 THEN <<q2, r2>>
               ELSE <<q2 + (val \div denom) + ((r2 + (val % denom)) \div denom),
                      (r2 + (val % denom)) % denom>>
           : h \in { ScaleQR(val, num \div 2, denom) } } : TRUE

\* gst_util_uint64_scale / gst_util_uint64_scale_int: floor(val * num / denom), and
\* G_MAXUINT64 (which is GST_CLOCK_TIME_NONE, (guint64) -1) when denom is 0
gst_util_uint64_scale(val, num, denom) ==
  IF denom = 0 THEN NONE
  ELSE IF val <= num THEN ScaleQR(num, val, denom)[1] ELSE ScaleQR(val, num, denom)[1]

\* a > b on guint64, where a negative number stands for its value modulo 2^64
UGt(a, b) ==
  IF a < 0 THEN (b >= 0 \/ a > b) ELSE (b >= 0 /\ a > b)

(* ------------------------------------------------------------------ *)
(* State                                                               *)
(* ------------------------------------------------------------------ *)
VARIABLES
  state,          \* element state: "NULL", "READY", "PAUSED", "PLAYING"
  trans,          \* "p2r" while Paused->Ready waits for the streaming thread, "pl2pa" while
                  \* Playing->Paused holds the object lock
  ringbuffer,     \* sink->ringbuffer != NULL
  rb,             \* the ring buffer: open, acquired, flushing, may_start, run, spec, latency_time, segdone, delay
  next_sample,    \* sink->next_sample
  last_align,     \* sink->priv->last_align
  avg_skew,       \* sink->priv->avg_skew
  us_latency,     \* sink->priv->us_latency
  provide_clock,  \* sink->provide_clock
  slave_method,   \* sink->priv->slave_method
  cal,            \* calibration of the provided clock
  last_time,      \* last internal time the provided clock returned
  clock,          \* GST_ELEMENT_CLOCK: "null", "provided" or "other"
  base_time,      \* element base time
  latency,        \* base sink latency
  sync,           \* base sink sync property
  segment,        \* base sink segment
  ext_ticks,      \* ticks of the foreign pipeline clock
  pc,             \* streaming thread: "idle", "commit_wait" or "preroll_wait" (render suspended
                  \* in its commit loop), "drain_wait" (drain before it reads base_time)
  pend,           \* locals of the suspended render call
  nbuf,           \* buffers handed to render so far
  upstream_ts,    \* end time of the last buffer upstream produced
  clk_reads,      \* the last two values get_time returned while acquired and not flushing
  run,            \* contiguous run of synced buffers: first position and sample sums
  obs             \* what the last operation did: result, warnings, commit arguments

sinkvars == <<next_sample, last_align, avg_skew, us_latency, provide_clock, slave_method, cal, last_time>>
pipevars == <<clock, base_time, latency, sync, segment, ext_ticks>>
threadvars == <<pc, pend, nbuf, upstream_ts>>
vars == <<state, trans, ringbuffer, rb, sinkvars, pipevars, threadvars, clk_reads, run, obs>>

States == { "NULL", "READY", "PAUSED", "PLAYING" }

\* observation of an operation that renders nothing
Obs(op) ==
  [ op |-> op, ret |-> "none", warn |-> 0, ncommit |-> 0,
    c_offset |-> NONE, c_in |-> 0, c_out |-> 0,
    path |-> "none", pos |-> NONE, align |-> 0, render_start |-> NONE, render_stop |-> NONE,
    samples |-> 0, size |-> 0, discont |-> FALSE, ns_align |-> NONE, la_in |-> 0,
    value |-> NONE, skew |-> 0, avg |-> 0, avg_in |-> 0, cext_in |-> 0,
    in_start |-> NONE, in_stop |-> NONE,
    reply |-> [res |-> FALSE, live |-> FALSE, min |-> 0, max |-> NONE],
    asked |-> [res |-> FALSE, live |-> FALSE, us_live |-> FALSE, min_l |-> 0, max_l |-> NONE],
    time |-> NONE, acquired_in |-> FALSE, ns_in |-> NONE ]

NoRun ==
  [ on |-> FALSE, base |-> 0, sum_in |-> 0, sum_out |-> 0, next_ts |-> NONE, k |-> 0,
    rounds |-> 0, skew |-> 0, avg0 |-> 0 ]
NoReads == <<NONE, NONE>>
NoPend ==
  [ samples |-> 0, sample_offset |-> 0, out_samples |-> 0, stop |-> NONE, align_next |-> TRUE,
    ncommit |-> 0, seen |-> Obs("none") ]

\* a ring buffer as the subclass factory creates it
NewRingBuffer ==
  [ open |-> FALSE, acquired |-> FALSE, flushing |-> FALSE, may_start |-> TRUE,
    run |-> "stopped",
    spec |-> [rate |-> 0, bytes_per_sample |-> 0, segsize |-> 0, segtotal |-> 0, seglatency |-> 0],
    latency_time |-> 0, segdone |-> 0, delay |-> 0, written |-> 0 ]

\* gst_base_audio_sink_init on zero-filled instance memory (next_sample, last_align,
\* avg_skew and us_latency start at 0), a default GstClock calibration, an element in NULL
Init ==
  /\ state = "NULL"
  /\ trans = "none"
  /\ ringbuffer = FALSE
  /\ rb = NewRingBuffer
  /\ next_sample = 0
  /\ last_align = 0
  /\ avg_skew = 0
  /\ us_latency = 0
  /\ provide_clock = TRUE
  /\ slave_method = "skew"
  /\ cal = [cinternal |-> 0, cexternal |-> 0, rate_num |-> 1, rate_denom |-> 1]
  /\ last_time = 0
  /\ clock = "null"
  /\ base_time = 0
  /\ latency = 0
  /\ sync = TRUE
  /\ segment \in { s \in Segments : s.stop = NONE }
  /\ ext_ticks = 0
  /\ pc = "idle"
  /\ pend = NoPend
  /\ nbuf = 0
  /\ upstream_ts = 0
  /\ clk_reads = NoReads
  /\ run = NoRun
  /\ obs = Obs("init")

(* ------------------------------------------------------------------ *)
(* The ring buffer (interface of section 4.A)                          *)
(* ------------------------------------------------------------------ *)
DEFAULT_LATENCY_TIME == 10000

rb_open_device(r) == [r EXCEPT !.open = TRUE]
rb_close_device(r) == [r EXCEPT !.open = FALSE]
rb_release(r) == [r EXCEPT !.acquired = FALSE, !.run = "stopped", !.delay = 0]
rb_acquire(r, fmt) ==
  [r EXCEPT !.acquired = TRUE, !.spec = fmt, !.segdone = 0, !.delay = 0, !.written = 0]
\* gst_ring_buffer_commit_full has written samples up to (not including) position `upto`
rb_commit(r, upto) == [r EXCEPT !.written = upto]
rb_set_flushing(r, f) == [r EXCEPT !.flushing = f]
rb_may_start(r, allowed) == [r EXCEPT !.may_start = allowed]
rb_start(r) ==
  IF r.acquired /\ ~r.flushing /\ r.may_start THEN [r EXCEPT !.run = "started"] ELSE r
rb_pause(r) == IF r.run = "started" THEN [r EXCEPT !.run = "paused"] ELSE r
rb_is_acquired(has, r) == has /\ r.acquired
samples_per_seg(r) == r.spec.segsize \div r.spec.bytes_per_sample
rb_samples_done(r) == r.segdone * samples_per_seg(r)
rb_delay(r) == IF r.acquired THEN r.delay ELSE 0

\* the foreign pipeline clock
ExtTime == ext_ticks * ExtTick

(* ------------------------------------------------------------------ *)
(* The provided clock                                                  *)
(* ------------------------------------------------------------------ *)
\* gst_base_audio_sink_get_time that forgets the samples still queued in the device
gst_base_audio_sink_get_time_no_delay(has, r, usl) ==
  IF ~has \/ r.spec.rate = 0 THEN NONE
  ELSE gst_util_uint64_scale(rb_samples_done(r), GST_SECOND, r.spec.rate) + usl

\* gst_base_audio_sink_get_time
gst_base_audio_sink_get_time(has, r, usl) ==
  IF ~has \/ r.spec.rate = 0 THEN NONE
  ELSE LET raw     == rb_samples_done(r)
           delay   == rb_delay(r)
           samples == IF raw >= delay THEN raw - delay ELSE 0
       IN  gst_util_uint64_scale(samples, GST_SECOND, r.spec.rate) + usl

\* gst_clock_get_internal_time on the audio clock: the callback's value, or the
\* last value returned when the callback has none
InternalTime ==
  LET t == gst_base_audio_sink_get_time(ringbuffer, rb, us_latency)
  IN  IF t = NONE THEN last_time ELSE t

\* gst_base_audio_sink_provide_clock without the check that the ring buffer is acquired
gst_base_audio_sink_provide_clock_unacquired(has, r, provide) ==
  IF ~has THEN FALSE
  ELSE IF ~provide THEN FALSE
  ELSE TRUE

\* gst_base_audio_sink_provide_clock: TRUE when the clock is handed out
gst_base_audio_sink_provide_clock(has, r, provide) ==
  IF ~has THEN FALSE
  ELSE IF ~rb_is_acquired(has, r) THEN FALSE
  ELSE IF ~provide THEN FALSE
  ELSE TRUE

\* the pair of consecutive reads survives only while acquired and not flushing
KeepReads(has, r, reads) == IF has /\ r.acquired /\ ~r.flushing THEN reads ELSE NoReads

(* ------------------------------------------------------------------ *)
(* Application thread: properties, clock, queries                      *)
(* ------------------------------------------------------------------ *)
\* gst_base_audio_sink_set_provide_clock
SetProvideClock(provide) ==
  /\ provide # provide_clock
  /\ provide_clock' = provide
  /\ obs' = Obs("set_provide_clock")
  /\ run' = NoRun
  /\ UNCHANGED <<state, trans, ringbuffer, rb, next_sample, last_align, avg_skew, us_latency,
                 slave_method, cal, last_time, pipevars, threadvars, clk_reads>>

\* gst_base_audio_sink_set_slave_method
SetSlaveMethod(method) ==
  /\ method # slave_method
  /\ slave_method' = method
  /\ obs' = Obs("set_slave_method")
  /\ run' = NoRun
  /\ UNCHANGED <<state, trans, ringbuffer, rb, next_sample, last_align, avg_skew, us_latency,
                 provide_clock, cal, last_time, pipevars, threadvars, clk_reads>>

\* the element's provide_clock vmethod, called by the pipeline
ProvideClock ==
  /\ obs' = [Obs("provide_clock") EXCEPT
               !.value = IF gst_base_audio_sink_provide_clock(ringbuffer, rb, provide_clock)
                         THEN 1 ELSE 0]
  /\ UNCHANGED <<state, trans, ringbuffer, rb, sinkvars, pipevars, pc, pend, nbuf, upstream_ts,
                 clk_reads, run>>

\* a read of the provided clock's internal time by any thread
GetTime ==
  /\ LET t == gst_base_audio_sink_get_time(ringbuffer, rb, us_latency)
     IN  /\ obs' = [Obs("get_time") EXCEPT !.value = t]
         /\ last_time' = InternalTime
         /\ clk_reads' = KeepReads(ringbuffer, rb, <<clk_reads[2], t>>)
  /\ UNCHANGED <<state, trans, ringbuffer, rb, next_sample, last_align, avg_skew, us_latency,
                 provide_clock, slave_method, cal, pipevars, pc, pend, nbuf, upstream_ts, run>>

\* what gst_base_sink_query_latency answered to the query
Asked(res, live, us_live, min_l, max_l) ==
  [res |-> res, live |-> live, us_live |-> us_live, min_l |-> min_l, max_l |-> max_l]

\* the query with the upstream maximum added as it is, unbounded or not
Query_adds_unbounded(res, live, us_live, min_l, max_l) ==
  /\ IF ~ringbuffer \/ rb.spec.rate = 0
     THEN /\ obs' = Obs("query")
          /\ UNCHANGED us_latency
     ELSE IF ~res
     THEN /\ obs' = [Obs("query") EXCEPT !.asked = Asked(res, live, us_live, min_l, max_l)]
          /\ UNCHANGED us_latency
     ELSE IF live /\ us_live
     THEN LET spec        == rb.spec
              min_latency == gst_util_uint64_scale(spec.seglatency * spec.segsize, GST_SECOND,
                                                   spec.rate * spec.bytes_per_sample) + min_l
              max_latency == min_latency + max_l
          IN  /\ us_latency' = min_l
              /\ obs' = [Obs("query") EXCEPT
                           !.asked = Asked(res, live, us_live, min_l, max_l),
                           !.reply = [res |-> TRUE, live |-> live, min |-> min_latency,
                                      max |-> max_latency]]
     ELSE /\ obs' = [Obs("query") EXCEPT
                       !.asked = Asked(res, live, us_live, min_l, max_l),
                       !.reply = [res |-> TRUE, live |-> live, min |-> 0, max |-> NONE]]
          /\ UNCHANGED us_latency
  /\ run' = NoRun
  /\ UNCHANGED <<state, trans, ringbuffer, rb, next_sample, last_align, avg_skew,
                 provide_clock, slave_method, cal, last_time, pipevars, pc, pend, nbuf,
                 upstream_ts, clk_reads>>

\* the query answering a maximum of 0 when the two ends are not both live
Query_not_live_bounded(res, live, us_live, min_l, max_l) ==
  /\ IF ~ringbuffer \/ rb.spec.rate = 0
     THEN /\ obs' = Obs("query")
          /\ UNCHANGED us_latency
     ELSE IF ~res
     THEN /\ obs' = [Obs("query") EXCEPT !.asked = Asked(res, live, us_live, min_l, max_l)]
          /\ UNCHANGED us_latency
     ELSE IF live /\ us_live
     THEN LET spec        == rb.spec
              min_latency == gst_util_uint64_scale(spec.seglatency * spec.segsize, GST_SECOND,
                                                   spec.rate * spec.bytes_per_sample) + min_l
              max_latency == min_latency + (IF max_l = NONE THEN 0 ELSE max_l)
          IN  /\ us_latency' = min_l
              /\ obs' = [Obs("query") EXCEPT
                           !.asked = Asked(res, live, us_live, min_l, max_l),
                           !.reply = [res |-> TRUE, live |-> live, min |-> min_latency,
                                      max |-> max_latency]]
     ELSE /\ obs' = [Obs("query") EXCEPT
                       !.asked = Asked(res, live, us_live, min_l, max_l),
                       !.reply = [res |-> TRUE, live |-> live, min |-> 0, max |-> 0]]
          /\ UNCHANGED us_latency
  /\ run' = NoRun
  /\ UNCHANGED <<state, trans, ringbuffer, rb, next_sample, last_align, avg_skew,
                 provide_clock, slave_method, cal, last_time, pipevars, pc, pend, nbuf,
                 upstream_ts, clk_reads>>

\* gst_base_audio_sink_query, GST_QUERY_LATENCY; (res, live, us_live, min_l, max_l) is
\* what gst_base_sink_query_latency answers
Query(res, live, us_live, min_l, max_l) ==
  /\ IF ~ringbuffer \/ rb.spec.rate = 0
     THEN /\ obs' = Obs("query")
          /\ UNCHANGED us_latency
     ELSE IF ~res
     THEN /\ obs' = [Obs("query") EXCEPT !.asked = Asked(res, live, us_live, min_l, max_l)]
          /\ UNCHANGED us_latency
     ELSE IF live /\ us_live
     THEN LET spec        == rb.spec
              min_latency == gst_util_uint64_scale(spec.seglatency * spec.segsize, GST_SECOND,
                                                   spec.rate * spec.bytes_per_sample) + min_l
              max_latency == min_latency + (IF max_l = NONE THEN 0 ELSE max_l)
          IN  /\ us_latency' = min_l
              /\ obs' = [Obs("query") EXCEPT
                           !.asked = Asked(res, live, us_live, min_l, max_l),
                           !.reply = [res |-> TRUE, live |-> live, min |-> min_latency,
                                      max |-> max_latency]]
     ELSE /\ obs' = [Obs("query") EXCEPT
                       !.asked = Asked(res, live, us_live, min_l, max_l),
                       !.reply = [res |-> TRUE, live |-> live, min |-> 0, max |-> NONE]]
          /\ UNCHANGED us_latency
  /\ run' = NoRun
  /\ UNCHANGED <<state, trans, ringbuffer, rb, next_sample, last_align, avg_skew,
                 provide_clock, slave_method, cal, last_time, pipevars, pc, pend, nbuf,
                 upstream_ts, clk_reads>>

\* the pipeline distributes a clock, a base time and a latency before it goes to PLAYING
PipelineConfigure(c, bt, lat) ==
  /\ state \in { "READY", "PAUSED" }
  /\ trans = "none"
  /\ <<c, bt, lat>> # <<clock, base_time, latency>>
  /\ clock' = c
  /\ base_time' = bt
  /\ latency' = lat
  /\ obs' = Obs("configure")
  /\ run' = NoRun
  /\ UNCHANGED <<state, trans, ringbuffer, rb, sinkvars, sync, segment, ext_ticks, threadvars,
                 clk_reads>>

\* the base sink's sync property
SetSync(b) ==
  /\ b # sync
  /\ sync' = b
  /\ obs' = Obs("set_sync")
  /\ run' = NoRun
  /\ UNCHANGED <<state, trans, ringbuffer, rb, sinkvars, clock, base_time, latency, segment,
                 ext_ticks, threadvars, clk_reads>>

(* ------------------------------------------------------------------ *)
(* Device thread and foreign clock                                     *)
(* ------------------------------------------------------------------ *)
\* the device consumes one segment
DeviceAdvance ==
  /\ ringbuffer /\ rb.acquired /\ rb.run = "started"
  /\ rb.segdone < MaxSegdone
  /\ rb' = [rb EXCEPT !.segdone = @ + 1]
  /\ obs' = Obs("device_advance")
  /\ UNCHANGED <<state, trans, ringbuffer, sinkvars, pipevars, threadvars, clk_reads, run>>

\* the amount queued inside the device changes
DeviceDelay(d) ==
  /\ ringbuffer /\ rb.acquired
  /\ d # rb.delay
  /\ rb' = [rb EXCEPT !.delay = d]
  /\ obs' = Obs("device_delay")
  /\ UNCHANGED <<state, trans, ringbuffer, sinkvars, pipevars, threadvars, clk_reads, run>>

\* the foreign pipeline clock advances
ExtClockTick ==
  /\ clock = "other"
  /\ ext_ticks < MaxExtTicks
  /\ ext_ticks' = ext_ticks + 1
  /\ obs' = Obs("ext_clock_tick")
  /\ UNCHANGED <<state, trans, ringbuffer, rb, sinkvars, clock, base_time, latency, sync,
                 segment, threadvars, clk_reads, run>>

(* ------------------------------------------------------------------ *)
(* Negotiation and events (streaming thread)                           *)
(* ------------------------------------------------------------------ *)
\* gst_base_audio_sink_setcaps; outcome is what parse_caps and acquire answer
SetCaps(outcome, fmt) ==
  /\ state \in { "READY", "PAUSED", "PLAYING" }
  /\ trans = "none"
  /\ pc = "idle"
  /\ IF ~ringbuffer
     THEN /\ obs' = [Obs("setcaps") EXCEPT !.ret = "false"]
          /\ UNCHANGED rb
     ELSE LET released == [rb_release(rb) EXCEPT !.latency_time = DEFAULT_LATENCY_TIME] IN
          CASE outcome = "parse_error" ->
                 /\ rb' = released
                 /\ obs' = [Obs("setcaps") EXCEPT !.ret = "false"]
            [] outcome = "acquire_error" ->
                 /\ rb' = [released EXCEPT !.spec = fmt]
                 /\ obs' = [Obs("setcaps") EXCEPT !.ret = "false"]
            [] outcome = "ok" ->
                 /\ rb' = [rb_acquire(released, fmt) EXCEPT
                             !.latency_time =
                                gst_util_uint64_scale(fmt.segsize, GST_SECOND \div GST_USECOND,
                                                      fmt.rate * fmt.bytes_per_sample)]
                 /\ obs' = [Obs("setcaps") EXCEPT !.ret = "true"]
  /\ clk_reads' = NoReads
  /\ run' = NoRun
  /\ UNCHANGED <<state, trans, ringbuffer, sinkvars, pipevars, threadvars>>

\* gst_base_audio_sink_event, GST_EVENT_FLUSH_START (arrives out of band)
FlushStart ==
  /\ rb' = IF ringbuffer THEN rb_set_flushing(rb, TRUE) ELSE rb
  /\ obs' = Obs("flush_start")
  /\ clk_reads' = KeepReads(ringbuffer, rb', clk_reads)
  /\ run' = NoRun
  /\ UNCHANGED <<state, trans, ringbuffer, sinkvars, pipevars, threadvars>>

\* flush-stop that leaves avg_skew alone
FlushStop_keeps_skew ==
  /\ pc = "idle"
  /\ next_sample' = NONE
  /\ rb' = IF ringbuffer THEN rb_set_flushing(rb, FALSE) ELSE rb
  /\ obs' = Obs("flush_stop")
  /\ run' = NoRun
  /\ UNCHANGED <<state, trans, ringbuffer, last_align, avg_skew, us_latency, provide_clock,
                 slave_method, cal, last_time, pipevars, threadvars, clk_reads>>

\* flush-stop that leaves next_sample alone
FlushStop_keeps_next_sample ==
  /\ pc = "idle"
  /\ avg_skew' = NONE
  /\ rb' = IF ringbuffer THEN rb_set_flushing(rb, FALSE) ELSE rb
  /\ obs' = Obs("flush_stop")
  /\ run' = NoRun
  /\ UNCHANGED <<state, trans, ringbuffer, next_sample, last_align, us_latency, provide_clock,
                 slave_method, cal, last_time, pipevars, threadvars, clk_reads>>

\* gst_base_audio_sink_event, GST_EVENT_FLUSH_STOP
FlushStop ==
  /\ pc = "idle"
  /\ avg_skew' = NONE
  /\ next_sample' = NONE
  /\ rb' = IF ringbuffer THEN rb_set_flushing(rb, FALSE) ELSE rb
  /\ obs' = Obs("flush_stop")
  /\ run' = NoRun
  /\ UNCHANGED <<state, trans, ringbuffer, last_align, us_latency, provide_clock, slave_method,
                 cal, last_time, pipevars, threadvars, clk_reads>>

\* drain that hands the time of next_sample to wait_eos without taking base_time off
Eos_keeps_base_time ==
  /\ pc = "idle"
  /\ state \in { "PAUSED", "PLAYING" }
  /\ trans = "none"
  /\ IF ~ringbuffer \/ rb.spec.rate = 0
     THEN /\ obs' = Obs("eos")
          /\ UNCHANGED <<rb, next_sample>>
     ELSE /\ rb' = IF rb_is_acquired(ringbuffer, rb) THEN rb_start(rb) ELSE rb
          /\ IF next_sample # NONE
             THEN LET time == gst_util_uint64_scale(next_sample, GST_SECOND, rb.spec.rate)
                      eos  == time
                  IN  /\ obs' = [Obs("eos") EXCEPT !.value = eos, !.path = "wait_eos"]
                      /\ next_sample' = NONE
             ELSE /\ obs' = Obs("eos")
                  /\ UNCHANGED next_sample
  /\ run' = NoRun
  /\ UNCHANGED <<state, trans, ringbuffer, last_align, avg_skew, us_latency, provide_clock,
                 slave_method, cal, last_time, pipevars, threadvars, clk_reads>>

\* gst_base_audio_sink_event, GST_EVENT_EOS: gst_base_audio_sink_drain
Eos ==
  /\ pc = "idle"
  /\ state \in { "PAUSED", "PLAYING" }
  /\ trans = "none"
  /\ IF ~ringbuffer \/ rb.spec.rate = 0
     THEN /\ obs' = Obs("eos")
          /\ UNCHANGED <<rb, next_sample>>
     ELSE /\ rb' = IF rb_is_acquired(ringbuffer, rb) THEN rb_start(rb) ELSE rb
          /\ IF next_sample # NONE
             THEN LET time == gst_util_uint64_scale(next_sample, GST_SECOND, rb.spec.rate)
                      eos  == IF time > base_time THEN time - base_time ELSE 0
                  IN  /\ obs' = [Obs("eos") EXCEPT !.value = eos, !.path = "wait_eos"]
                      /\ next_sample' = NONE
             ELSE /\ obs' = Obs("eos")
                  /\ UNCHANGED next_sample
  /\ run' = NoRun
  /\ UNCHANGED <<state, trans, ringbuffer, last_align, avg_skew, us_latency, provide_clock,
                 slave_method, cal, last_time, pipevars, threadvars, clk_reads>>

\* the base sink installs a new segment; gst_base_audio_sink_event only reads its rate
NewSegment(seg) ==
  /\ pc = "idle"
  /\ state \in { "PAUSED", "PLAYING" }
  /\ trans = "none"
  /\ seg # segment
  /\ segment' = seg
  /\ obs' = Obs("newsegment")
  /\ run' = NoRun
  /\ UNCHANGED <<state, trans, ringbuffer, rb, sinkvars, clock, base_time, latency, sync,
                 ext_ticks, threadvars, clk_reads>>

(* ------------------------------------------------------------------ *)
(* State changes: gst_base_audio_sink_change_state                     *)
(* ------------------------------------------------------------------ *)
NullToReady(open_ok) ==
  /\ state = "NULL"
  /\ ringbuffer' = TRUE
  /\ LET r == IF ringbuffer THEN rb ELSE NewRingBuffer IN
     IF open_ok
     THEN /\ rb' = rb_open_device(r)
          /\ state' = "READY"
          /\ obs' = [Obs("null_to_ready") EXCEPT !.ret = "success"]
     ELSE /\ rb' = r
          /\ state' = "NULL"
          /\ obs' = [Obs("null_to_ready") EXCEPT !.ret = "failure"]
  /\ run' = NoRun
  /\ UNCHANGED <<trans, sinkvars, pipevars, threadvars, clk_reads>>

\* Ready->Paused that leaves next_sample as the last render left it
ReadyToPaused_keeps_next_sample ==
  /\ state = "READY"
  /\ last_align' = NONE
  /\ rb' = rb_may_start(rb_set_flushing(rb, FALSE), FALSE)
  /\ state' = "PAUSED"
  /\ obs' = [Obs("ready_to_paused") EXCEPT !.ret = "success"]
  /\ run' = NoRun
  /\ UNCHANGED <<trans, ringbuffer, next_sample, avg_skew, us_latency, provide_clock, slave_method, cal,
                 last_time, pipevars, threadvars, clk_reads>>

ReadyToPaused ==
  /\ state = "READY"
  /\ next_sample' = NONE
  /\ last_align' = NONE
  /\ rb' = rb_may_start(rb_set_flushing(rb, FALSE), FALSE)
  /\ state' = "PAUSED"
  /\ obs' = [Obs("ready_to_paused") EXCEPT !.ret = "success"]
  /\ run' = NoRun
  /\ UNCHANGED <<trans, ringbuffer, avg_skew, us_latency, provide_clock, slave_method, cal,
                 last_time, pipevars, threadvars, clk_reads>>

\* async_play that reseeds the calibration without forgetting next_sample
PausedToPlaying_keeps_next_sample ==
  /\ state = "PAUSED"
  /\ trans = "none"
  /\ LET armed == rb_may_start(rb, TRUE) IN
     IF clock = "null" \/ clock = "provided"
     THEN /\ rb' = armed
          /\ UNCHANGED <<avg_skew, next_sample, cal, last_time>>
     ELSE /\ avg_skew' = NONE
          /\ UNCHANGED next_sample
          /\ cal' = [cal EXCEPT !.cinternal = InternalTime, !.cexternal = ExtTime]
          /\ last_time' = InternalTime
          /\ rb' = rb_start(armed)
  /\ state' = "PLAYING"
  /\ obs' = [Obs("paused_to_playing") EXCEPT !.ret = "success"]
  /\ run' = NoRun
  /\ UNCHANGED <<trans, ringbuffer, last_align, us_latency, provide_clock, slave_method,
                 pipevars, threadvars, clk_reads>>

\* async_play that starts the ring buffer under every pipeline clock
PausedToPlaying_always_starts ==
  /\ state = "PAUSED"
  /\ trans = "none"
  /\ LET armed == rb_may_start(rb, TRUE) IN
     IF clock = "null" \/ clock = "provided"
     THEN /\ rb' = rb_start(armed)
          /\ UNCHANGED <<avg_skew, next_sample, cal, last_time>>
     ELSE /\ avg_skew' = NONE
          /\ next_sample' = NONE
          /\ cal' = [cal EXCEPT !.cinternal = InternalTime, !.cexternal = ExtTime]
          /\ last_time' = InternalTime
          /\ rb' = rb_start(armed)
  /\ state' = "PLAYING"
  /\ obs' = [Obs("paused_to_playing") EXCEPT !.ret = "success"]
  /\ run' = NoRun
  /\ UNCHANGED <<trans, ringbuffer, last_align, us_latency, provide_clock, slave_method,
                 pipevars, threadvars, clk_reads>>

\* gst_base_audio_sink_do_play / gst_base_audio_sink_async_play, then the parent's change
PausedToPlaying ==
  /\ state = "PAUSED"
  /\ trans = "none"
  /\ LET armed == rb_may_start(rb, TRUE) IN
     IF clock = "null" \/ clock = "provided"
     THEN /\ rb' = armed
          /\ UNCHANGED <<avg_skew, next_sample, cal, last_time>>
     ELSE /\ avg_skew' = NONE
          /\ next_sample' = NONE
          /\ cal' = [cal EXCEPT !.cinternal = InternalTime, !.cexternal = ExtTime]
          /\ last_time' = InternalTime
          /\ rb' = rb_start(armed)
  /\ state' = "PLAYING"
  /\ obs' = [Obs("paused_to_playing") EXCEPT !.ret = "success"]
  /\ run' = NoRun
  /\ UNCHANGED <<trans, ringbuffer, last_align, us_latency, provide_clock, slave_method,
                 pipevars, threadvars, clk_reads>>

PlayingToPaused ==
  /\ state = "PLAYING"
  /\ rb' = rb_pause(rb_may_start(rb, FALSE))
  /\ state' = "PAUSED"
  /\ obs' = [Obs("playing_to_paused") EXCEPT !.ret = "success"]
  /\ run' = NoRun
  /\ UNCHANGED <<trans, ringbuffer, sinkvars, pipevars, threadvars, clk_reads>>

\* Paused->Ready, first half: unblock the streaming thread before the parent's change
PausedToReadyBegin ==
  /\ state = "PAUSED"
  /\ trans = "none"
  /\ rb' = rb_set_flushing(rb, TRUE)
  /\ trans' = "p2r"
  /\ obs' = Obs("paused_to_ready_begin")
  /\ clk_reads' = NoReads
  /\ run' = NoRun
  /\ UNCHANGED <<state, ringbuffer, sinkvars, pipevars, threadvars>>

\* Paused->Ready, second half: the parent's change (it waits for the streaming thread
\* to leave render), then release
PausedToReadyFinish ==
  /\ state = "PAUSED"
  /\ trans = "p2r"
  /\ pc = "idle"
  /\ rb' = rb_release(rb)
  /\ trans' = "none"
  /\ state' = "READY"
  /\ obs' = [Obs("paused_to_ready") EXCEPT !.ret = "success"]
  /\ clk_reads' = NoReads
  /\ run' = NoRun
  /\ UNCHANGED <<ringbuffer, sinkvars, pipevars, threadvars>>

\* Ready->Null that closes the device without the second release
ReadyToNull_no_release ==
  /\ state = "READY"
  /\ rb' = rb_close_device(rb)
  /\ state' = "NULL"
  /\ obs' = [Obs("ready_to_null") EXCEPT !.ret = "success", !.acquired_in = rb.acquired]
  /\ clk_reads' = NoReads
  /\ run' = NoRun
  /\ UNCHANGED <<trans, ringbuffer, sinkvars, pipevars, threadvars>>

ReadyToNull ==
  /\ state = "READY"
  /\ rb' = rb_close_device(rb_release(rb))
  /\ state' = "NULL"
  /\ obs' = [Obs("ready_to_null") EXCEPT !.ret = "success", !.acquired_in = rb.acquired]
  /\ clk_reads' = NoReads
  /\ run' = NoRun
  /\ UNCHANGED <<trans, ringbuffer, sinkvars, pipevars, threadvars>>

(* ------------------------------------------------------------------ *)
(* Segment arithmetic of the base sink                                 *)
(* ------------------------------------------------------------------ *)
\* gst_segment_clip for GST_FORMAT_TIME with valid start and stop
gst_segment_clip(seg, start, stop) ==
  IF seg.stop # NONE /\ start >= seg.stop
  THEN [ok |-> FALSE, cstart |-> NONE, cstop |-> NONE]
  ELSE IF stop < seg.start \/ (start # stop /\ stop = seg.start)
  THEN [ok |-> FALSE, cstart |-> NONE, cstop |-> NONE]
  ELSE [ok |-> TRUE,
        cstart |-> IF start > seg.start THEN start ELSE seg.start,
        cstop |-> IF seg.stop = NONE THEN stop ELSE Min(stop, seg.stop)]

\* gst_segment_to_running_time for a position inside a forward segment
gst_segment_to_running_time(seg, position) == position - seg.start

(* ------------------------------------------------------------------ *)
(* Sample position without a clock                                     *)
(* ------------------------------------------------------------------ *)
\* the sample position taken from next_sample without a look at the device
gst_base_audio_sink_get_offset_appends(ns, r) ==
  IF ns = NONE THEN 0 ELSE ns

\* gst_base_audio_sink_get_offset
gst_base_audio_sink_get_offset(ns, r) ==
  LET sample   == IF ns = NONE THEN 0 ELSE ns
      sps      == samples_per_seg(r)
      writeseg == sample \div sps
      segdone  == r.segdone
      diff     == writeseg - segdone
  IN  IF diff < 0 THEN (segdone + 1) * sps ELSE sample

(* ------------------------------------------------------------------ *)
(* Slaving                                                             *)
(* ------------------------------------------------------------------ *)
clock_convert_external(external, cinternal, cexternal, crate_num, crate_denom, usl) ==
  LET adj == IF external >= cexternal
             THEN gst_util_uint64_scale(external - cexternal, crate_denom, crate_num) + cinternal
             ELSE LET back == gst_util_uint64_scale(cexternal - external, crate_denom, crate_num)
                  IN  IF UGt(cinternal, back) THEN cinternal - back ELSE 0
  IN  IF UGt(adj, usl) THEN adj - usl ELSE 0

\* what a slaving strategy yields: the slaved times and the sink state it leaves
Slaved(start, stop, avg, cext, ns, lt) ==
  [start |-> start, stop |-> stop, avg_skew |-> avg, cexternal |-> cext,
   next_sample |-> ns, last_time |-> lt]

\* gst_base_audio_sink_resample_slaving
gst_base_audio_sink_resample_slaving(render_start, render_stop) ==
  LET crate_num   == IF cal.rate_num = 0 THEN 1 ELSE cal.rate_num
      crate_denom == IF cal.rate_num = 0 THEN 1 ELSE cal.rate_denom
  IN  Slaved(clock_convert_external(render_start, cal.cinternal, cal.cexternal,
                                    crate_num, crate_denom, us_latency),
             clock_convert_external(render_stop, cal.cinternal, cal.cexternal,
                                    crate_num, crate_denom, us_latency),
             avg_skew, cal.cexternal, next_sample, last_time)

\* the moving average with the previous average weighted twice as heavily
SkewAverage_heavier(avg, skew) ==
  IF avg = NONE THEN skew ELSE CDiv((2 * SKEW_WINDOW - 1) * avg + skew, 2 * SKEW_WINDOW)

\* the moving average of gst_base_audio_sink_skew_slaving
SkewAverage(avg, skew) ==
  IF avg = NONE THEN skew ELSE CDiv(SKEW_WEIGHT * avg + skew, SKEW_WINDOW)

\* the skew gst_base_audio_sink_skew_slaving observes: GST_CLOCK_DIFF (etime, itime) of
\* the two clocks, each taken relative to its calibration offset and kept above 0
SkewObserved ==
  LET etime == IF ExtTime > cal.cexternal THEN ExtTime - cal.cexternal ELSE 0
      itime == IF InternalTime > cal.cinternal THEN InternalTime - cal.cinternal ELSE 0
  IN  itime - etime

\* skew slaving that only corrects an average above segtime/2
gst_base_audio_sink_skew_slaving_one_way(render_start, render_stop) ==
  CHOOSE slaved \in {
  LET segtime    == rb.latency_time * 1000
      segtime2   == CDiv(segtime, 2)
      segsamples == rb.spec.segsize \div rb.spec.bytes_per_sample
      cext       == IF avg > segtime2
                    THEN (IF cal.cexternal > segtime THEN cal.cexternal - segtime ELSE 0)
                    ELSE cal.cexternal
      avg2       == IF avg > segtime2 THEN avg - segtime ELSE avg
      ns         == IF avg > segtime2
                    THEN (IF last_align < 0 \/ last_align > segsamples THEN NONE ELSE next_sample)
                    ELSE next_sample
  IN  Slaved(clock_convert_external(render_start, cal.cinternal, cext,
                                    cal.rate_num, cal.rate_denom, us_latency),
             clock_convert_external(render_stop, cal.cinternal, cext,
                                    cal.rate_num, cal.rate_denom, us_latency),
             avg2, cext, ns, itime0)
  : itime0 \in { InternalTime }, avg \in { SkewAverage(avg_skew, SkewObserved) } } : TRUE

\* gst_base_audio_sink_skew_slaving: the internal clock is sampled once (itime0) and the
\* average is updated once (avg); the record is what the function leaves behind
gst_base_audio_sink_skew_slaving(render_start, render_stop) ==
  CHOOSE slaved \in {
  LET segtime    == rb.latency_time * 1000
      segtime2   == CDiv(segtime, 2)
      segsamples == rb.spec.segsize \div rb.spec.bytes_per_sample
      cext       == IF avg > segtime2
                    THEN (IF cal.cexternal > segtime THEN cal.cexternal - segtime ELSE 0)
                    ELSE IF avg < -segtime2 THEN cal.cexternal + segtime
                    ELSE cal.cexternal
      avg2       == IF avg > segtime2 THEN avg - segtime
                    ELSE IF avg < -segtime2 THEN avg + segtime
                    ELSE avg
      ns         == IF avg > segtime2
                    THEN (IF last_align < 0 \/ last_align > segsamples THEN NONE ELSE next_sample)
                    ELSE IF avg < -segtime2
                    THEN (IF last_align > 0 \/ -last_align > segsamples THEN NONE ELSE next_sample)
                    ELSE next_sample
  IN  Slaved(clock_convert_external(render_start, cal.cinternal, cext,
                                    cal.rate_num, cal.rate_denom, us_latency),
             clock_convert_external(render_stop, cal.cinternal, cext,
                                    cal.rate_num, cal.rate_denom, us_latency),
             avg2, cext, ns, itime0)
  : itime0 \in { InternalTime }, avg \in { SkewAverage(avg_skew, SkewObserved) } } : TRUE

\* gst_base_audio_sink_none_slaving
gst_base_audio_sink_none_slaving(render_start, render_stop) ==
  Slaved(clock_convert_external(render_start, cal.cinternal, cal.cexternal,
                                cal.rate_num, cal.rate_denom, us_latency),
         clock_convert_external(render_stop, cal.cinternal, cal.cexternal,
                                cal.rate_num, cal.rate_denom, us_latency),
         avg_skew, cal.cexternal, next_sample, last_time)

\* gst_base_audio_sink_handle_slaving
gst_base_audio_sink_handle_slaving(render_start, render_stop) ==
  CASE slave_method = "resample" -> gst_base_audio_sink_resample_slaving(render_start, render_stop)
    [] slave_method = "skew" -> gst_base_audio_sink_skew_slaving(render_start, render_stop)
    [] slave_method = "none" -> gst_base_audio_sink_none_slaving(render_start, render_stop)

(* ------------------------------------------------------------------ *)
(* gst_base_audio_sink_render up to its commit loop                    *)
(* ------------------------------------------------------------------ *)
\* what render has decided when it reaches (or leaves before) the commit loop
Plan(path, samples, stop, render_start, render_stop, out_samples, pos, align, warn, sl, la) ==
  [ path |-> path, samples |-> samples, stop |-> stop,
    render_start |-> render_start, render_stop |-> render_stop, out_samples |-> out_samples,
    sample_offset |-> IF segment.rate >= 0 THEN render_start ELSE render_stop,
    pos |-> pos, align |-> align, warn |-> warn,
    avg_skew |-> sl.avg_skew, cexternal |-> sl.cexternal, next_sample |-> sl.next_sample,
    last_time |-> sl.last_time, last_align |-> la, in_start |-> NONE, in_stop |-> NONE ]

\* the sink state when slaving has not run
Untouched == Slaved(NONE, NONE, avg_skew, cal.cexternal, next_sample, last_time)

\* wrong_state, wrong_size, out_of_segment: render returns before the commit loop
PlanReturn(path) == Plan(path, 0, NONE, NONE, NONE, 0, NONE, 0, 0, Untouched, last_align)

\* the no_sync path: timestamp missing, no clock, or sync off
PlanNoSync(samples0, samples, stop) ==
  LET render_start == gst_base_audio_sink_get_offset(next_sample, rb)
      render_stop  == render_start + samples
  IN  Plan("no_sync", samples, stop, render_start, render_stop, samples0, NONE, 0, 0,
           Untouched, last_align)

\* PlanAlign that aligns without recording the alignment in last_align
PlanAlign_keeps_last_align(samples, stop, rs, re, sl, slaved, discont) ==
  IF discont \/ sl.next_sample = NONE
  THEN Plan("no_align", samples, stop, rs, re, re - rs,
            IF segment.rate >= 0 THEN rs ELSE re, 0, 0, sl, last_align)
  ELSE LET sample_offset == IF segment.rate >= 0 THEN rs ELSE re
           diff  == IF sample_offset >= sl.next_sample
                    THEN sample_offset - sl.next_sample
                    ELSE sl.next_sample - sample_offset
           near  == diff < (rb.spec.rate \div DIFF_TOLERANCE)
           align == IF near THEN sl.next_sample - sample_offset ELSE 0
           rs2   == rs + align
           re2   == IF slaved /\ slave_method = "resample" THEN re ELSE re + align
       IN  Plan(IF near THEN "aligned" ELSE "resync", samples, stop, rs2, re2, re2 - rs2,
                sample_offset, align, IF near THEN 0 ELSE 1, sl, last_align)

\* PlanAlign that computes the alignment with the operands swapped
PlanAlign_wrong_sign(samples, stop, rs, re, sl, slaved, discont) ==
  IF discont \/ sl.next_sample = NONE
  THEN Plan("no_align", samples, stop, rs, re, re - rs,
            IF segment.rate >= 0 THEN rs ELSE re, 0, 0, sl, last_align)
  ELSE LET sample_offset == IF segment.rate >= 0 THEN rs ELSE re
           diff  == IF sample_offset >= sl.next_sample
                    THEN sample_offset - sl.next_sample
                    ELSE sl.next_sample - sample_offset
           near  == diff < (rb.spec.rate \div DIFF_TOLERANCE)
           align == IF near THEN sample_offset - sl.next_sample ELSE 0
           rs2   == rs + align
           re2   == IF slaved /\ slave_method = "resample" THEN re ELSE re + align
       IN  Plan(IF near THEN "aligned" ELSE "resync", samples, stop, rs2, re2, re2 - rs2,
                sample_offset, align, IF near THEN 0 ELSE 1, sl, align)

\* PlanAlign that moves the stop position along with the start in every slave mode
PlanAlign_aligns_stop(samples, stop, rs, re, sl, slaved, discont) ==
  IF discont \/ sl.next_sample = NONE
  THEN Plan("no_align", samples, stop, rs, re, re - rs,
            IF segment.rate >= 0 THEN rs ELSE re, 0, 0, sl, last_align)
  ELSE LET sample_offset == IF segment.rate >= 0 THEN rs ELSE re
           diff  == IF sample_offset >= sl.next_sample
                    THEN sample_offset - sl.next_sample
                    ELSE sl.next_sample - sample_offset
           near  == diff < (rb.spec.rate \div DIFF_TOLERANCE)
           align == IF near THEN sl.next_sample - sample_offset ELSE 0
           rs2   == rs + align
           re2   == re + align
       IN  Plan(IF near THEN "aligned" ELSE "resync", samples, stop, rs2, re2, re2 - rs2,
                sample_offset, align, IF near THEN 0 ELSE 1, sl, align)

\* PlanAlign that aligns whatever the distance is
PlanAlign_no_resync(samples, stop, rs, re, sl, slaved, discont) ==
  IF discont \/ sl.next_sample = NONE
  THEN Plan("no_align", samples, stop, rs, re, re - rs,
            IF segment.rate >= 0 THEN rs ELSE re, 0, 0, sl, last_align)
  ELSE LET sample_offset == IF segment.rate >= 0 THEN rs ELSE re
           diff  == IF sample_offset >= sl.next_sample
                    THEN sample_offset - sl.next_sample
                    ELSE sl.next_sample - sample_offset
           near  == diff >= 0
           align == IF near THEN sl.next_sample - sample_offset ELSE 0
           rs2   == rs + align
           re2   == IF slaved /\ slave_method = "resample" THEN re ELSE re + align
       IN  Plan(IF near THEN "aligned" ELSE "resync", samples, stop, rs2, re2, re2 - rs2,
                sample_offset, align, IF near THEN 0 ELSE 1, sl, align)

\* PlanAlign that ignores the DISCONT flag
PlanAlign_aligns_discont(samples, stop, rs, re, sl, slaved, discont) ==
  IF sl.next_sample = NONE
  THEN Plan("no_align", samples, stop, rs, re, re - rs,
            IF segment.rate >= 0 THEN rs ELSE re, 0, 0, sl, last_align)
  ELSE LET sample_offset == IF segment.rate >= 0 THEN rs ELSE re
           diff  == IF sample_offset >= sl.next_sample
                    THEN sample_offset - sl.next_sample
                    ELSE sl.next_sample - sample_offset
           near  == diff < (rb.spec.rate \div DIFF_TOLERANCE)
           align == IF near THEN sl.next_sample - sample_offset ELSE 0
           rs2   == rs + align
           re2   == IF slaved /\ slave_method = "resample" THEN re ELSE re + align
       IN  Plan(IF near THEN "aligned" ELSE "resync", samples, stop, rs2, re2, re2 - rs2,
                sample_offset, align, IF near THEN 0 ELSE 1, sl, align)

\* the alignment step that never hands a negative sample count to commit
PlanAlign_clamps(samples, stop, rs, re, sl, slaved, discont) ==
  IF discont \/ sl.next_sample = NONE
  THEN Plan("no_align", samples, stop, rs, re, re - rs,
            IF segment.rate >= 0 THEN rs ELSE re, 0, 0, sl, last_align)
  ELSE LET sample_offset == IF segment.rate >= 0 THEN rs ELSE re
           diff  == IF sample_offset >= sl.next_sample
                    THEN sample_offset - sl.next_sample
                    ELSE sl.next_sample - sample_offset
           near  == diff < (rb.spec.rate \div DIFF_TOLERANCE)
           align == IF near THEN sl.next_sample - sample_offset ELSE 0
           rs2   == rs + align
           re2   == IF slaved /\ slave_method = "resample" THEN re ELSE re + align
       IN  Plan(IF near THEN "aligned" ELSE "resync", samples, stop, rs2, re2,
                IF re2 < rs2 THEN 0 ELSE re2 - rs2,
                sample_offset, align, IF near THEN 0 ELSE 1, sl, align)

\* the alignment step of render, from the slaved sample positions
PlanAlign(samples, stop, rs, re, sl, slaved, discont) ==
  IF discont \/ sl.next_sample = NONE
  THEN Plan("no_align", samples, stop, rs, re, re - rs,
            IF segment.rate >= 0 THEN rs ELSE re, 0, 0, sl, last_align)
  ELSE LET sample_offset == IF segment.rate >= 0 THEN rs ELSE re
           diff  == IF sample_offset >= sl.next_sample
                    THEN sample_offset - sl.next_sample
                    ELSE sl.next_sample - sample_offset
           near  == diff < (rb.spec.rate \div DIFF_TOLERANCE)
           align == IF near THEN sl.next_sample - sample_offset ELSE 0
           rs2   == rs + align
           re2   == IF slaved /\ slave_method = "resample" THEN re ELSE re + align
       IN  Plan(IF near THEN "aligned" ELSE "resync", samples, stop, rs2, re2, re2 - rs2,
                sample_offset, align, IF near THEN 0 ELSE 1, sl, align)

\* the synced path with the configured strategy run under every pipeline clock
PlanSync_always_slaves(samples, time, stop, discont) ==
  LET rate   == rb.spec.rate
      rt0    == gst_segment_to_running_time(segment, time) + base_time + latency
      rt1    == gst_segment_to_running_time(segment, stop) + base_time + latency
      slaved == clock # "provided"
      sl     == gst_base_audio_sink_handle_slaving(rt0, rt1)
      rs     == gst_util_uint64_scale(sl.start, rate, GST_SECOND)
      re     == gst_util_uint64_scale(sl.stop, rate, GST_SECOND)
  IN  [PlanAlign(samples, stop, rs, re, sl, slaved, discont)
         EXCEPT !.in_start = rt0, !.in_stop = rt1]

\* the synced path: running time, base time, latency, slaving, conversion to samples;
\* in_start and in_stop are the times handed to the slaving step
PlanSync(samples, time, stop, discont) ==
  LET rate   == rb.spec.rate
      rt0    == gst_segment_to_running_time(segment, time) + base_time + latency
      rt1    == gst_segment_to_running_time(segment, stop) + base_time + latency
      slaved == clock # "provided"
      sl     == IF slaved
                THEN gst_base_audio_sink_handle_slaving(rt0, rt1)
                ELSE gst_base_audio_sink_none_slaving(rt0, rt1)
      rs     == gst_util_uint64_scale(sl.start, rate, GST_SECOND)
      re     == gst_util_uint64_scale(sl.stop, rate, GST_SECOND)
  IN  [PlanAlign(samples, stop, rs, re, sl, slaved, discont)
         EXCEPT !.in_start = rt0, !.in_stop = rt1]

\* the clipping step without the cut at the end of the segment
PlanClip_keeps_tail(samples0, time, stop, discont) ==
  LET rate == rb.spec.rate
      clip == gst_segment_clip(segment, time, stop)
  IN  IF ~clip.ok THEN PlanReturn("out_of_segment")
      ELSE LET head  == clip.cstart - time
               cut0  == IF head > 0 THEN gst_util_uint64_scale(head, rate, GST_SECOND) ELSE 0
               time1 == IF head > 0 THEN clip.cstart ELSE time
               samples == samples0 - cut0
           IN  IF clock = "null" \/ ~sync
               THEN PlanNoSync(samples0, samples, stop)
               ELSE PlanSync(samples, time1, stop, discont)

\* the clipping step of render and the choice between the synced and the no_sync path
PlanClip(samples0, time, stop, discont) ==
  LET rate == rb.spec.rate
      clip == gst_segment_clip(segment, time, stop)
  IN  IF ~clip.ok THEN PlanReturn("out_of_segment")
      ELSE LET head  == clip.cstart - time
               cut0  == IF head > 0 THEN gst_util_uint64_scale(head, rate, GST_SECOND) ELSE 0
               time1 == IF head > 0 THEN clip.cstart ELSE time
               tail  == stop - clip.cstop
               cut1  == IF tail > 0 THEN gst_util_uint64_scale(tail, rate, GST_SECOND) ELSE 0
               stop1 == IF tail > 0 THEN clip.cstop ELSE stop
               samples == samples0 - cut0 - cut1
           IN  IF clock = "null" \/ ~sync
               THEN PlanNoSync(samples0, samples, stop1)
               ELSE PlanSync(samples, time1, stop1, discont)

\* the buffer's end time as render computes it (timestamp + samples at the rate)
BufferStop(size, time) ==
  time + gst_util_uint64_scale(size \div rb.spec.bytes_per_sample, GST_SECOND, rb.spec.rate)

\* RenderPlan without the check of the buffer size
RenderPlan_no_size_check(size, time, discont) ==
  IF ~rb_is_acquired(ringbuffer, rb) THEN PlanReturn("wrong_state")
  ELSE LET samples0 == size \div rb.spec.bytes_per_sample
           stop     == BufferStop(size, time)
       IN  IF time = NONE THEN PlanNoSync(samples0, samples0, stop)
           ELSE PlanClip(samples0, time, stop, discont)

\* gst_base_audio_sink_render from entry to the commit loop
RenderPlan(size, time, discont) ==
  IF ~rb_is_acquired(ringbuffer, rb) THEN PlanReturn("wrong_state")
  ELSE IF size % rb.spec.bytes_per_sample # 0 THEN PlanReturn("wrong_size")
  ELSE LET samples0 == size \div rb.spec.bytes_per_sample
           stop     == BufferStop(size, time)
       IN  IF time = NONE THEN PlanNoSync(samples0, samples0, stop)
           ELSE PlanClip(samples0, time, stop, discont)

(* ------------------------------------------------------------------ *)
(* The commit loop of render                                           *)
(* ------------------------------------------------------------------ *)
CommitPaths == { "no_sync", "no_align", "aligned", "resync" }

\* what render reports about a buffer that reached the commit loop
RenderObs(p, size, discont, ret, ncommit) ==
  [ Obs("render") EXCEPT
      !.size = size, !.discont = discont, !.ns_align = p.next_sample, !.la_in = last_align,
      !.ns_in = next_sample, !.ret = ret, !.warn = p.warn, !.ncommit = ncommit,
      !.c_offset = p.sample_offset, !.c_in = p.samples, !.c_out = p.out_samples,
      !.path = p.path, !.pos = p.pos, !.align = p.align,
      !.render_start = p.render_start, !.render_stop = p.render_stop,
      !.in_start = p.in_start, !.in_stop = p.in_stop,
      !.samples = p.samples ]

\* the end-of-segment start after the commit loop
EndOfSegment(r, stop) ==
  IF stop # NONE /\ segment.stop # NONE /\ stop >= segment.stop THEN rb_start(r) ELSE r

\* input samples a commit call that returns early has consumed
PartialWrites(samples) == { 0, samples \div 2 }

\* the contiguous run after a synced buffer was committed in one piece
NextRun(p, time, discont, stop0) ==
  IF p.path \notin { "no_align", "aligned", "resync" } THEN NoRun
  ELSE IF run.on /\ time = run.next_ts /\ ~discont /\ p.cexternal = cal.cexternal
          /\ p.next_sample # NONE
  THEN [ NoRun EXCEPT !.on = TRUE, !.base = run.base, !.sum_in = run.sum_in + p.samples,
                      !.sum_out = run.sum_out + p.out_samples, !.next_ts = stop0,
                      !.k = run.k + 1 ]
  ELSE IF p.align = 0
  THEN [ NoRun EXCEPT !.on = TRUE, !.base = p.sample_offset, !.sum_in = p.samples,
                      !.sum_out = p.out_samples, !.next_ts = stop0, !.k = 1 ]
  ELSE NoRun

\* gst_base_audio_sink_render: one buffer of `size` bytes, timestamp `time`, DISCONT flag
Render(size, time, discont) ==
  /\ pc = "idle"
  /\ state = "PLAYING"
  /\ trans = "none"
  /\ nbuf < MaxBuffers
  /\ time = NONE \/ (time >= 0 /\ time <= TsLimit)
  /\ nbuf' = nbuf + 1
  /\ \E p \in { RenderPlan(size, time, discont) } :
     \E stop0 \in { IF p.path \in { "wrong_state", "wrong_size" } \/ time = NONE
                    THEN upstream_ts ELSE BufferStop(size, time) } :
         /\ upstream_ts' = stop0
         /\ avg_skew' = p.avg_skew
         /\ cal' = [cal EXCEPT !.cexternal = p.cexternal]
         /\ last_align' = p.last_align
         /\ last_time' = p.last_time
         /\ \/ \* wrong_state, wrong_size, out_of_segment
               /\ p.path \notin CommitPaths
               /\ UNCHANGED <<next_sample, rb, pc, pend>>
               /\ obs' = [Obs("render") EXCEPT
                            !.path = p.path, !.size = size, !.discont = discont, !.time = time,
                            !.la_in = last_align,
                            !.ret = CASE p.path = "wrong_state" -> "not_negotiated"
                                      [] p.path = "wrong_size" -> "error"
                                      [] OTHER -> "ok"]
               /\ run' = NoRun
            \/ \* the first commit call writes all samples
               /\ p.path \in CommitPaths
               /\ ~rb.flushing \/ p.samples = 0
               /\ next_sample' = p.sample_offset + p.out_samples
               /\ rb' = EndOfSegment(IF p.samples > 0
                                      THEN rb_commit(rb, p.sample_offset + p.out_samples)
                                      ELSE rb, p.stop)
               /\ UNCHANGED <<pc, pend>>
               /\ obs' = [RenderObs(p, size, discont, "ok", 1) EXCEPT !.time = time]
               /\ run' = NextRun(p, time, discont, stop0)
            \/ \* the first commit call has to wait for free segments
               /\ p.path \in CommitPaths
               /\ ~rb.flushing /\ p.samples > 0
               /\ next_sample' = p.next_sample
               /\ pc' = "commit_wait"
               /\ pend' = [ samples |-> p.samples, sample_offset |-> p.sample_offset,
                            out_samples |-> p.out_samples, stop |-> p.stop,
                            align_next |-> TRUE, ncommit |-> 1,
                            seen |-> [RenderObs(p, size, discont, "blocked", 1) EXCEPT !.time = time] ]
               /\ UNCHANGED rb
               /\ obs' = [RenderObs(p, size, discont, "blocked", 1) EXCEPT !.time = time]
               /\ run' = NoRun
            \/ \* the ring buffer is flushing: commit returns at once, wait_preroll fails
               /\ p.path \in CommitPaths
               /\ rb.flushing /\ p.samples > 0
               /\ next_sample' = p.next_sample
               /\ UNCHANGED <<rb, pc, pend>>
               /\ obs' = [RenderObs(p, size, discont, "stopping", 1) EXCEPT !.time = time]
               /\ run' = NoRun
  /\ UNCHANGED <<state, trans, ringbuffer, us_latency, provide_clock, slave_method, pipevars,
                 clk_reads>>

\* CommitWake that finishes the commit although the ring buffer is flushing
CommitWake_ignores_flushing ==
  /\ pc = "commit_wait"
  /\ \/ /\ rb.flushing \/ rb.run = "started" \/ rb.may_start
        /\ pc' = "idle"
        /\ pend' = NoPend
        /\ next_sample' = IF pend.align_next THEN pend.sample_offset + pend.out_samples ELSE NONE
        /\ rb' = EndOfSegment(rb_commit(IF rb.run # "started" THEN rb_start(rb) ELSE rb,
                                        pend.seen.c_offset + pend.seen.c_out), pend.stop)
        /\ obs' = [pend.seen EXCEPT !.ret = "ok", !.ncommit = pend.ncommit]
     \/ \* paused: early return with part of the samples, render waits for preroll
        /\ ~rb.flushing
        /\ rb.run # "started" /\ ~rb.may_start
        /\ \E written \in PartialWrites(pend.samples) :
           \E upto \in { pend.sample_offset + CDiv(written * pend.out_samples, pend.samples) } :
             /\ pend' = [pend EXCEPT !.samples = @ - written, !.sample_offset = upto]
             /\ rb' = IF written > 0 THEN rb_commit(rb, upto) ELSE rb
        /\ pc' = "preroll_wait"
        /\ UNCHANGED <<next_sample, obs>>
  /\ run' = NoRun
  /\ UNCHANGED <<state, trans, ringbuffer, last_align, avg_skew, us_latency, provide_clock,
                 slave_method, cal, last_time, pipevars, nbuf, upstream_ts, clk_reads>>

\* a commit call that was waiting for free segments returns
CommitWake ==
  /\ pc = "commit_wait"
  /\ \/ \* flush-start or Paused->Ready: early return, wait_preroll fails: stopping
        /\ rb.flushing
        /\ pc' = "idle"
        /\ pend' = NoPend
        /\ obs' = [pend.seen EXCEPT !.ret = "stopping", !.ncommit = pend.ncommit]
        /\ UNCHANGED <<next_sample, rb>>
     \/ \* the device freed segments: all samples written
        /\ ~rb.flushing
        /\ rb.run = "started" \/ rb.may_start
        /\ pc' = "idle"
        /\ pend' = NoPend
        /\ next_sample' = IF pend.align_next THEN pend.sample_offset + pend.out_samples ELSE NONE
        /\ rb' = EndOfSegment(rb_commit(IF rb.run # "started" THEN rb_start(rb) ELSE rb,
                                        pend.seen.c_offset + pend.seen.c_out), pend.stop)
        /\ obs' = [pend.seen EXCEPT !.ret = "ok", !.ncommit = pend.ncommit]
     \/ \* paused: early return with part of the samples, render waits for preroll
        /\ ~rb.flushing
        /\ rb.run # "started" /\ ~rb.may_start
        /\ \E written \in PartialWrites(pend.samples) :
           \E upto \in { pend.sample_offset + CDiv(written * pend.out_samples, pend.samples) } :
             /\ pend' = [pend EXCEPT !.samples = @ - written, !.sample_offset = upto]
             /\ rb' = IF written > 0 THEN rb_commit(rb, upto) ELSE rb
        /\ pc' = "preroll_wait"
        /\ UNCHANGED <<next_sample, obs>>
  /\ run' = NoRun
  /\ UNCHANGED <<state, trans, ringbuffer, last_align, avg_skew, us_latency, provide_clock,
                 slave_method, cal, last_time, pipevars, nbuf, upstream_ts, clk_reads>>

\* PrerollWake that lets the buffer after an interrupted commit be aligned
PrerollWake_keeps_align_next ==
  /\ pc = "preroll_wait"
  /\ \/ /\ rb.flushing
        /\ pc' = "idle"
        /\ pend' = NoPend
        /\ obs' = [pend.seen EXCEPT !.ret = "stopping", !.ncommit = pend.ncommit]
     \/ /\ ~rb.flushing
        /\ state = "PLAYING"
        /\ pend.ncommit < MaxCommits
        /\ pc' = "commit_wait"
        /\ pend' = [pend EXCEPT !.ncommit = @ + 1]
        /\ UNCHANGED obs
  /\ run' = NoRun
  /\ UNCHANGED <<state, trans, ringbuffer, rb, sinkvars, pipevars, nbuf, upstream_ts,
                 clk_reads>>

\* gst_base_sink_wait_preroll returns inside the commit loop
PrerollWake ==
  /\ pc = "preroll_wait"
  /\ \/ \* cancelled: render returns stopping
        /\ rb.flushing
        /\ pc' = "idle"
        /\ pend' = NoPend
        /\ obs' = [pend.seen EXCEPT !.ret = "stopping", !.ncommit = pend.ncommit]
     \/ \* playing again: the loop commits the rest, the next buffer is not aligned
        /\ ~rb.flushing
        /\ state = "PLAYING"
        /\ pend.ncommit < MaxCommits
        /\ pc' = "commit_wait"
        /\ pend' = [pend EXCEPT !.align_next = FALSE, !.ncommit = @ + 1]
        /\ UNCHANGED obs
  /\ run' = NoRun
  /\ UNCHANGED <<state, trans, ringbuffer, rb, sinkvars, pipevars, nbuf, upstream_ts,
                 clk_reads>>

(* ------------------------------------------------------------------ *)
(* Skew slaving over many buffers                                      *)
(* ------------------------------------------------------------------ *)
\* the duration of the buffers upstream sends while the clocks are compared
SkewPeriod == 10000 * GST_USECOND

\* pipeline clock ticks per buffer period: slower and faster than the device, which
\* plays one segment (1024 samples, 23.2 ms) per period
DriftTicks == { 1, 3 }
\* a pipeline clock that runs steadily faster than the device
FastTicks == { 6, 7 }

\* a sink that plays under a foreign pipeline clock with slave-method skew: a ring
\* buffer acquired and started, a calibration whose offsets were taken when playback
\* started (lines 1424-1438) and whose rate is whatever the clock has stored, the two
\* clocks up to one reading apart, and an average left by earlier buffers
InitSkew ==
  /\ state = "PLAYING"
  /\ trans = "none"
  /\ ringbuffer = TRUE
  /\ \E f \in Formats, done \in { 0, 1 } :
       rb = [rb_start(rb_may_start(rb_acquire(rb_open_device(NewRingBuffer), f), TRUE))
               EXCEPT !.latency_time =
                         gst_util_uint64_scale(f.segsize, GST_SECOND \div GST_USECOND,
                                               f.rate * f.bytes_per_sample),
                      !.segdone = done]
  /\ next_sample = 4410
  /\ last_align = 2000
  /\ avg_skew \in { NONE, 0, 8000 * GST_USECOND, -8000 * GST_USECOND }
  /\ us_latency = 0
  /\ provide_clock = TRUE
  /\ slave_method = "skew"
  /\ \E k0 \in { 0, 3 }, ahead \in { 0, 1 }, rate \in { <<1, 1>>, <<2, 1>>, <<0, 1>> } :
       /\ cal = [cinternal |-> 0, cexternal |-> k0 * ExtTick,
                 rate_num |-> rate[1], rate_denom |-> rate[2]]
       /\ ext_ticks = k0 + ahead
  /\ last_time = 0
  /\ clock = "other"
  /\ base_time = 0
  /\ latency = 0
  /\ sync = TRUE
  /\ segment \in { sg \in Segments : sg.stop = NONE }
  /\ pc = "idle"
  /\ pend = NoPend
  /\ nbuf = 0
  /\ upstream_ts = 0
  /\ clk_reads = NoReads
  /\ run = NoRun
  /\ obs = Obs("init")

\* one buffer period passes: the device plays a segment and the pipeline clock
\* advances by `ticks` ticks
BufferPeriod(ticks) ==
  /\ obs.op # "buffer_period"
  /\ nbuf < MaxSkewRounds
  /\ clock = "other"
  /\ ringbuffer /\ rb.acquired /\ rb.run = "started"
  /\ rb' = [rb EXCEPT !.segdone = @ + 1]
  /\ ext_ticks' = ext_ticks + ticks
  /\ obs' = Obs("buffer_period")
  /\ UNCHANGED <<state, trans, ringbuffer, sinkvars, clock, base_time, latency, sync, segment,
                 threadvars, clk_reads, run>>

\* the buffers in a row for which skew slaving has observed the same skew without
\* correcting the calibration, and the average it had before the first of them
SkewRun(skew, corrected) ==
  IF corrected THEN NoRun
  ELSE IF run.rounds > 0 /\ run.skew = skew THEN [run EXCEPT !.rounds = @ + 1]
  ELSE [NoRun EXCEPT !.rounds = 1, !.skew = skew, !.avg0 = avg_skew]

\* render of a timed buffer up to the slaved times (lines 1108-1142), for a sink slaved
\* with slave-method skew: gst_base_audio_sink_skew_slaving and what it leaves behind
SkewSlaving(limit) ==
  /\ pc = "idle"
  /\ state = "PLAYING"
  /\ trans = "none"
  /\ clock = "other" /\ sync /\ slave_method = "skew"
  /\ rb_is_acquired(ringbuffer, rb)
  /\ nbuf < limit
  /\ nbuf' = nbuf + 1
  /\ upstream_ts' = upstream_ts + SkewPeriod
  /\ \E rt0 \in { gst_segment_to_running_time(segment, upstream_ts) + base_time + latency } :
     \E skew \in { SkewObserved } :
     \E sl \in { gst_base_audio_sink_skew_slaving(rt0, rt0 + SkewPeriod) } :
       /\ avg_skew' = sl.avg_skew
       /\ cal' = [cal EXCEPT !.cexternal = sl.cexternal]
       /\ next_sample' = sl.next_sample
       /\ last_time' = sl.last_time
       /\ obs' = [Obs("skew_slaving") EXCEPT
                    !.skew = skew, !.avg = SkewAverage(avg_skew, skew),
                    !.avg_in = avg_skew, !.cext_in = cal.cexternal,
                    !.in_start = rt0, !.in_stop = rt0 + SkewPeriod,
                    !.render_start = sl.start, !.render_stop = sl.stop,
                    !.warn = IF sl.avg_skew # SkewAverage(avg_skew, skew) THEN 1 ELSE 0]
       /\ run' = SkewRun(skew, sl.avg_skew # SkewAverage(avg_skew, skew))
  /\ UNCHANGED <<state, trans, ringbuffer, rb, last_align, us_latency, provide_clock,
                 slave_method, pipevars, pc, pend, clk_reads>>

(* ------------------------------------------------------------------ *)
(* The object lock around play and pause                               *)
(* ------------------------------------------------------------------ *)
\* Playing->Paused, first call under the object lock: may_start(FALSE); the state
\* change holds the lock while trans = "pl2pa"
PlayingToPausedLock ==
  /\ state = "PLAYING"
  /\ trans = "none"
  /\ rb' = rb_may_start(rb, FALSE)
  /\ trans' = "pl2pa"
  /\ obs' = Obs("playing_to_paused_lock")
  /\ run' = NoRun
  /\ UNCHANGED <<state, ringbuffer, sinkvars, pipevars, threadvars, clk_reads>>

\* Playing->Paused, second call: pause(), then the lock is dropped
PlayingToPausedUnlock ==
  /\ state = "PLAYING"
  /\ trans = "pl2pa"
  /\ rb' = rb_pause(rb)
  /\ trans' = "none"
  /\ state' = "PAUSED"
  /\ obs' = [Obs("playing_to_paused") EXCEPT !.ret = "success"]
  /\ run' = NoRun
  /\ UNCHANGED <<ringbuffer, sinkvars, pipevars, threadvars, clk_reads>>

\* async_play entered without waiting for the object lock
AsyncPlay_unlocked ==
  /\ pc = "idle"
  /\ state \in { "PAUSED", "PLAYING" }
  /\ trans \in { "none", "pl2pa" }
  /\ LET armed == rb_may_start(rb, TRUE) IN
     IF clock = "null" \/ clock = "provided"
     THEN /\ rb' = armed
          /\ obs' = [Obs("async_play") EXCEPT !.ret = "success"]
          /\ UNCHANGED <<avg_skew, next_sample, cal, last_time>>
     ELSE /\ avg_skew' = NONE
          /\ next_sample' = NONE
          /\ cal' = [cal EXCEPT !.cinternal = InternalTime, !.cexternal = ExtTime]
          /\ last_time' = InternalTime
          /\ rb' = rb_start(armed)
          /\ obs' = [Obs("async_play") EXCEPT !.ret = "success", !.path = "start"]
  /\ state' = IF trans = "none" THEN "PLAYING" ELSE state
  /\ run' = NoRun
  /\ UNCHANGED <<trans, ringbuffer, last_align, us_latency, provide_clock, slave_method,
                 pipevars, threadvars, clk_reads>>

\* gst_base_audio_sink_async_play as the base sink calls it from the streaming thread
\* when a preroll completes a pending change to PLAYING: the caller holds the object
\* lock, so the call waits while a state change holds it
AsyncPlay ==
  /\ pc = "idle"
  /\ state \in { "PAUSED", "PLAYING" }
  /\ trans = "none"
  /\ LET armed == rb_may_start(rb, TRUE) IN
     IF clock = "null" \/ clock = "provided"
     THEN /\ rb' = armed
          /\ obs' = [Obs("async_play") EXCEPT !.ret = "success"]
          /\ UNCHANGED <<avg_skew, next_sample, cal, last_time>>
     ELSE /\ avg_skew' = NONE
          /\ next_sample' = NONE
          /\ cal' = [cal EXCEPT !.cinternal = InternalTime, !.cexternal = ExtTime]
          /\ last_time' = InternalTime
          /\ rb' = rb_start(armed)
          /\ obs' = [Obs("async_play") EXCEPT !.ret = "success", !.path = "start"]
  /\ state' = "PLAYING"
  /\ run' = NoRun
  /\ UNCHANGED <<trans, ringbuffer, last_align, us_latency, provide_clock, slave_method,
                 pipevars, threadvars, clk_reads>>

\* gst_base_audio_sink_drain up to the object lock: the start of the ring buffer,
\* issued without the lock, and the time of next_sample (kept in pend.stop)
DrainStart ==
  /\ pc = "idle"
  /\ state \in { "PAUSED", "PLAYING" }
  /\ trans \in { "none", "pl2pa" }
  /\ IF ~ringbuffer \/ rb.spec.rate = 0
     THEN /\ obs' = Obs("eos")
          /\ UNCHANGED <<rb, pc>>
     ELSE /\ rb' = IF rb_is_acquired(ringbuffer, rb) THEN rb_start(rb) ELSE rb
          /\ obs' = [Obs("drain_start") EXCEPT
                       !.path = IF rb_is_acquired(ringbuffer, rb) THEN "start" ELSE "none"]
          /\ pc' = IF next_sample # NONE THEN "drain_wait" ELSE "idle"
  /\ pend' = IF ringbuffer /\ rb.spec.rate # 0 /\ next_sample # NONE
             THEN [pend EXCEPT
                     !.stop = gst_util_uint64_scale(next_sample, GST_SECOND, rb.spec.rate)]
             ELSE pend
  /\ run' = NoRun
  /\ UNCHANGED <<state, trans, ringbuffer, sinkvars, pipevars, nbuf, upstream_ts, clk_reads>>

\* the rest of gst_base_audio_sink_drain: base_time is read under the object lock,
\* then wait_eos and the reset of next_sample
DrainWait ==
  /\ pc = "drain_wait"
  /\ trans # "pl2pa"
  /\ LET time == pend.stop
         eos  == IF time > base_time THEN time - base_time ELSE 0
     IN  obs' = [Obs("eos") EXCEPT !.value = eos, !.path = "wait_eos"]
  /\ next_sample' = NONE
  /\ pc' = "idle"
  /\ pend' = NoPend
  /\ run' = NoRun
  /\ UNCHANGED <<state, trans, ringbuffer, rb, last_align, avg_skew, us_latency,
                 provide_clock, slave_method, cal, last_time, pipevars, nbuf, upstream_ts,
                 clk_reads>>

(* ------------------------------------------------------------------ *)
(* Specification                                                       *)
(* ------------------------------------------------------------------ *)
\* the streaming thread renders the next buffer upstream sends
RenderNext ==
  \E b \in Buffers :
    Render(b.size, IF b.timed THEN upstream_ts + b.gap ELSE NONE, b.discont)

\* the control plane: state changes, negotiation, events and properties, without buffers
NextControl ==
  \/ \E b \in BOOLEAN : SetProvideClock(b)
  \/ ProvideClock
  \/ \E cfg \in Configs : PipelineConfigure(cfg[1], cfg[2], cfg[3])
  \/ DeviceAdvance
  \/ ExtClockTick
  \/ \E o \in { "parse_error", "acquire_error", "ok" }, f \in Formats : SetCaps(o, f)
  \/ FlushStart
  \/ FlushStop
  \/ Eos
  \/ \E ok \in BOOLEAN : NullToReady(ok)
  \/ ReadyToPaused
  \/ PausedToPlaying
  \/ PlayingToPaused
  \/ PausedToReadyBegin
  \/ PausedToReadyFinish
  \/ ReadyToNull

\* the provided clock: reads of its time interleaved with the device, latency queries,
\* flushes, the drain that starts the ring buffer and the state changes that acquire,
\* pause and release it
NextClock ==
  \/ GetTime
  \/ Eos
  \/ \E q \in QueryAnswers : Query(q[1], q[2], q[3], q[4], q[5])
  \/ DeviceAdvance
  \/ \E d \in Delays : DeviceDelay(d)
  \/ \E o \in { "acquire_error", "ok" }, f \in Formats : SetCaps(o, f)
  \/ FlushStart
  \/ FlushStop
  \/ NullToReady(TRUE)
  \/ ReadyToPaused
  \/ PausedToPlaying
  \/ PlayingToPaused
  \/ PausedToReadyBegin
  \/ PausedToReadyFinish

\* the clock, base time and latency the pipeline distributes to a sink that is set up
\* with the given slave method and sync property
StreamConfigs ==
  IF ~sync THEN { c \in Configs : c[1] = "provided" }
  ELSE IF slave_method = "skew" THEN Configs
  ELSE { c \in Configs : c = <<"other", 0, 0>> }

\* upstream still has a buffer to send, or the last buffer's render has not returned
Streaming == nbuf < MaxBuffers \/ pc # "idle"

\* the streaming thread: the sink is configured, brought to PLAYING and fed buffers
\* until upstream has sent its last buffer and that buffer's render has returned; a
\* flush that was started is still completed by its flush-stop
NextStream ==
  \/ state = "NULL" /\ sync /\ \E m \in SlaveMethods : SetSlaveMethod(m)
  \/ state = "NULL" /\ slave_method = "skew" /\ \E b \in BOOLEAN : SetSync(b)
  \/ state = "READY" /\ \E cfg \in StreamConfigs : PipelineConfigure(cfg[1], cfg[2], cfg[3])
  \/ state = "PAUSED" /\ nbuf = 0 /\ \E f \in Formats : SetCaps("ok", f)
  \/ nbuf = 0 /\ clock = "provided" /\ sync /\ \E seg \in Segments : NewSegment(seg)
  \/ NullToReady(TRUE)
  \/ ReadyToPaused
  \/ Streaming /\ PausedToPlaying
  \/ Streaming /\ PlayingToPaused
  \/ Streaming /\ FlushStart
  \/ (Streaming \/ rb.flushing) /\ FlushStop
  \/ Streaming /\ DeviceAdvance
  \/ Streaming /\ ExtClockTick
  \/ RenderNext
  \/ CommitWake
  \/ PrerollWake

\* the clocks the pipeline can choose between for a sink that provides one
MasterConfigs == { c \in Configs : c[1] # "null" /\ c[2] = 0 }

\* a sink under a pipeline that selects the sink's own clock, possibly after a spell
\* under a foreign one before the first buffer, with any slave method and possibly a
\* live upstream that has answered a latency query
NextMaster ==
  \/ state = "NULL" /\ \E m \in SlaveMethods : SetSlaveMethod(m)
  \/ \E cfg \in MasterConfigs : PipelineConfigure(cfg[1], cfg[2], cfg[3])
  \/ state = "PAUSED" /\ nbuf = 0 /\ \E f \in Formats : SetCaps("ok", f)
  \/ state = "PAUSED" /\ nbuf = 0 /\ us_latency = 0
        /\ \E q \in { a \in QueryAnswers : a[4] > 0 /\ a[5] = NONE } :
             Query(q[1], q[2], q[3], q[4], q[5])
  \/ NullToReady(TRUE)
  \/ ReadyToPaused
  \/ Streaming /\ PausedToPlaying
  \/ nbuf = 0 /\ PlayingToPaused
  \/ Streaming /\ DeviceAdvance
  \/ nbuf = 0 /\ ExtClockTick
  \/ RenderNext
  \/ CommitWake

\* buffers against the segment: a sink with or without a clock and with sync on or
\* off receives a segment and then buffers that lie inside it, across its ends or
\* outside it
NextClip ==
  \/ state = "NULL" /\ \E b \in BOOLEAN : SetSync(b)
  \/ state = "READY"
        /\ \E cfg \in { c \in Configs : c[1] # "other" } : PipelineConfigure(cfg[1], cfg[2], cfg[3])
  \/ state = "PAUSED" /\ nbuf = 0 /\ \E f \in Formats : SetCaps("ok", f)
  \/ nbuf = 0 /\ \E seg \in Segments : NewSegment(seg)
  \/ NullToReady(TRUE)
  \/ ReadyToPaused
  \/ Streaming /\ PausedToPlaying
  \/ Streaming /\ DeviceAdvance
  \/ RenderNext
  \/ CommitWake

\* what the pipeline distributes before an end of stream: as Configs, and the sink's
\* own clock with a base time later than the end of a first short buffer
DrainConfigs == Configs \cup { <<"provided", 30000 * GST_USECOND, 0>> }

\* end of stream: the sink is configured under any clock, negotiated (possibly without
\* success), fed the buffers upstream has and sent EOS, in PAUSED or PLAYING, while
\* flushing or not
NextDrain ==
  \/ state = "NULL" /\ \E b \in BOOLEAN : SetSync(b)
  \/ state = "READY" /\ \E cfg \in DrainConfigs : PipelineConfigure(cfg[1], cfg[2], cfg[3])
  \/ state = "PAUSED" /\ nbuf = 0
        /\ \E o \in { "acquire_error", "ok" }, f \in Formats : SetCaps(o, f)
  \/ NullToReady(TRUE)
  \/ ReadyToPaused
  \/ PausedToPlaying
  \/ PlayingToPaused
  \/ nbuf = 0 /\ FlushStart
  \/ nbuf = 0 /\ FlushStop
  \/ Streaming /\ DeviceAdvance
  \/ nbuf = 0 /\ ExtClockTick
  \/ RenderNext
  \/ CommitWake
  \/ Eos

\* play and pause at the grain of the object lock: the application pauses a playing
\* sink while the streaming thread commits a pending change to PLAYING, renders or
\* drains at EOS
NextLock ==
  \/ state = "READY" /\ \E cfg \in Configs : PipelineConfigure(cfg[1], cfg[2], cfg[3])
  \/ state = "PAUSED" /\ nbuf = 0 /\ \E f \in Formats : SetCaps("ok", f)
  \/ NullToReady(TRUE)
  \/ ReadyToPaused
  \/ PausedToPlaying
  \/ AsyncPlay
  \/ PlayingToPausedLock
  \/ PlayingToPausedUnlock
  \/ Streaming /\ DeviceAdvance
  \/ nbuf = 0 /\ ExtClockTick
  \/ RenderNext
  \/ CommitWake
  \/ DrainStart
  \/ DrainWait

\* cancelled renders and what follows them: buffers under the sink's own or a foreign
\* clock, flushes and the way down to READY and up again while render is in its
\* commit loop; as the base sink refuses buffers between a flush-start and its
\* flush-stop, render is not entered while the ring buffer is flushing
NextStale ==
  \/ state = "READY"
        /\ \E cfg \in { c \in Configs : c[1] # "null" /\ c[2] = 0 } :
             PipelineConfigure(cfg[1], cfg[2], cfg[3])
  \/ state = "PAUSED" /\ nbuf = 0 /\ \E f \in Formats : SetCaps("ok", f)
  \/ NullToReady(TRUE)
  \/ ReadyToPaused
  \/ Streaming /\ PausedToPlaying
  \/ Streaming /\ PlayingToPaused
  \/ Streaming /\ FlushStart
  \/ (Streaming \/ rb.flushing) /\ FlushStop
  \/ Streaming /\ PausedToReadyBegin
  \/ PausedToReadyFinish
  \/ Streaming /\ DeviceAdvance
  \/ ~rb.flushing /\ RenderNext
  \/ CommitWake
  \/ PrerollWake

\* the formats upstream can renegotiate to: the first format and one at another rate
RenegotiatedFormats ==
  Formats \cup
    { [rate |-> 48000, bytes_per_sample |-> 4, segsize |-> 4096, segtotal |-> 8, seglatency |-> 2] }

\* renegotiation in mid-stream: set_caps arrives between two buffers of a playing sink
NextRenegotiate ==
  \/ state = "READY"
        /\ \E cfg \in { c \in Configs : c[1] # "null" /\ c[2] = 0 } :
             PipelineConfigure(cfg[1], cfg[2], cfg[3])
  \/ state # "READY" /\ \E f \in RenegotiatedFormats : SetCaps("ok", f)
  \/ NullToReady(TRUE)
  \/ ReadyToPaused
  \/ PausedToPlaying
  \/ Streaming /\ DeviceAdvance
  \/ RenderNext
  \/ CommitWake

SpecControl == Init /\ [][NextControl]_vars
SpecRenegotiate == Init /\ [][NextRenegotiate]_vars
SpecStale == Init /\ [][NextStale]_vars
SpecLock == Init /\ [][NextLock]_vars
SpecDrain == Init /\ [][NextDrain]_vars
SpecClip == Init /\ [][NextClip]_vars
SpecMaster == Init /\ [][NextMaster]_vars
SpecClock == Init /\ [][NextClock]_vars
SpecStream == Init /\ [][NextStream]_vars

\* the streaming thread and the events and state changes that cancel it: buffers are
\* rendered by a sink that was brought to PLAYING, and flushes, pauses and the way
\* down to READY arrive while render is in its commit loop
NextCancel ==
  \/ NullToReady(TRUE)
  \/ ReadyToPaused
  \/ state = "PAUSED" /\ nbuf = 0 /\ \E f \in Formats : SetCaps("ok", f)
  \/ Streaming /\ PausedToPlaying
  \/ Streaming /\ PlayingToPaused
  \/ Streaming /\ FlushStart
  \/ (Streaming \/ rb.flushing) /\ FlushStop
  \/ Streaming /\ PausedToReadyBegin
  \/ PausedToReadyFinish
  \/ RenderNext
  \/ CommitWake
  \/ PrerollWake

\* a commit or a preroll wait that can return does return
SpecCancel ==
  Init /\ [][NextCancel]_vars /\ WF_vars(CommitWake) /\ WF_vars(PrerollWake)

\* buffers rendered under slave-method skew while the pipeline clock drifts against
\* the device
NextSkew ==
  \/ \E t \in DriftTicks : BufferPeriod(t)
  \/ obs.op = "buffer_period" /\ SkewSlaving(MaxSkewRounds)

\* the same with a pipeline clock that runs steadily faster than the device
NextSkewFast ==
  \/ \E t \in FastTicks : BufferPeriod(t)
  \/ obs.op = "buffer_period" /\ SkewSlaving(MaxSkewRounds)

\* buffers rendered in a row while neither clock moves
NextSkewConst == SkewSlaving(MaxConstRounds)

SpecSkew == InitSkew /\ [][NextSkew]_vars
SpecSkewConst == InitSkew /\ [][NextSkewConst]_vars
\* upstream keeps sending buffers and time keeps passing
SpecSkewFast == InitSkew /\ [][NextSkewFast]_vars /\ WF_vars(NextSkewFast)

(* ------------------------------------------------------------------ *)
(* Properties of the renderer                                          *)
(* ------------------------------------------------------------------ *)
\* the render paths that reach the alignment step (a synced buffer)
SyncedPaths == { "no_align", "aligned", "resync" }
\* the last operation was a render whose commit loop wrote everything in one call
RenderedInOne == obs.op = "render" /\ obs.ret = "ok" /\ obs.ncommit = 1
\* the last operation was a render of a synced buffer without DISCONT that found
\* next_sample set at the alignment step
AlignAttempted ==
  obs.op = "render" /\ obs.path \in SyncedPaths /\ ~obs.discont /\ obs.ns_align # NONE

\* C1 (as amended): over a run of contiguous synced buffers (each timestamp is the end
\* of the previous buffer, no DISCONT, no drift correction, no interruption) next_sample
\* is the position of the first buffer plus the sum of the output sample counts
\* (render_stop - render_start) of the buffers so far, and last_align is 0 after every
\* aligned buffer of the run.
ContiguousRunOutput ==
  run.on => /\ next_sample = run.base + run.sum_out
            /\ obs.path = "aligned" => last_align = 0
\* C1 witness: a run of two buffers whose output count differs from their sample count
ContiguousRunReached ==
  run.on /\ run.k >= 2 /\ obs.path = "aligned" /\ run.sum_out # run.sum_in
\* C1 as stated: next_sample is the first position plus the sum of the sample counts
ContiguousRunInput ==
  run.on => /\ next_sample = run.base + run.sum_in
            /\ obs.path = "aligned" => last_align = 0

LargeGapResyncs ==
  (AlignAttempted /\ Abs(obs.pos - obs.ns_align) >= rb.spec.rate \div 2)
    => /\ obs.warn = 1
       /\ obs.align = 0
       /\ obs.c_offset = obs.pos
       /\ RenderedInOne => next_sample = obs.pos + obs.c_out
\* C3 witness: a buffer half a second late was rendered
LargeGapReached ==
  /\ AlignAttempted /\ RenderedInOne
  /\ Abs(obs.pos - obs.ns_align) >= rb.spec.rate \div 2

\* C4: a synced buffer that carries DISCONT, or that finds next_sample none, is not
\* aligned: it is committed at the clock-implied position, last_align keeps the value
\* it had, and next_sample ends at the clock-implied position plus the output count.
DiscontSkipsAlignment ==
  (obs.op = "render" /\ obs.path \in SyncedPaths /\ (obs.discont \/ obs.ns_align = NONE))
    => /\ obs.align = 0
       /\ obs.warn = 0
       /\ obs.c_offset = obs.pos
       /\ last_align = obs.la_in
       /\ RenderedInOne => next_sample = obs.pos + obs.c_out
\* C4 witness: a DISCONT buffer 10 ms away from a set next_sample was rendered
DiscontReached ==
  /\ RenderedInOne /\ obs.path \in SyncedPaths /\ obs.discont
  /\ obs.ns_align # NONE /\ obs.pos # obs.ns_align

\* C5: render on a ring buffer that is not acquired answers not-negotiated, render of a
\* buffer that is not a whole number of samples answers wrong-size, and either way it
\* returns at once: no commit, and next_sample, last_align, avg_skew and the
\* calibration are as before.
GateRejects ==
  [][ nbuf' = nbuf + 1 =>
        /\ ~rb_is_acquired(ringbuffer, rb) => obs'.ret = "not_negotiated"
        /\ (rb_is_acquired(ringbuffer, rb) /\ obs'.size % rb.spec.bytes_per_sample # 0)
             => (obs'.ret = "error" /\ obs'.path = "wrong_size")
        /\ obs'.ret \in { "not_negotiated", "error" }
             => /\ obs'.ncommit = 0
                /\ pc' = "idle"
                /\ UNCHANGED <<next_sample, last_align, avg_skew, cal>> ]_vars
\* C5 witness: a buffer of the wrong size was refused after a buffer had been rendered
GateRejectReached ==
  obs.op = "render" /\ obs.ret = "error" /\ next_sample # NONE /\ next_sample > 0

(* ------------------------------------------------------------------ *)
(* Properties of the provided clock and of the resync events           *)
(* ------------------------------------------------------------------ *)
\* the time the clock formula gives for the current ring buffer
FormulaTime ==
  LET done == rb_samples_done(rb)
  IN  gst_util_uint64_scale(done - Min(done, rb_delay(rb)), GST_SECOND, rb.spec.rate)
        + us_latency

\* C6: two consecutive reads of the provided clock's time, taken while the ring buffer
\* stays acquired and is not flushing, never decrease, whatever the device and latency
\* queries do in between.
ClockReadsMonotone ==
  (clk_reads[1] # NONE /\ clk_reads[2] # NONE) => clk_reads[2] >= clk_reads[1]

\* C7 (as amended): the provided clock's time is (samples_done - min(samples_done,
\* delay)) scaled to nanoseconds at the ring buffer's rate, plus us_latency; it is
\* "no value" exactly when no ring buffer exists or the rate is 0.
ClockTimeFormula ==
  obs.op = "get_time"
    => obs.value = IF ~ringbuffer \/ rb.spec.rate = 0 THEN NONE ELSE FormulaTime
\* C7 witness: a read with samples played, samples queued and an upstream latency
ClockTimeReached ==
  /\ obs.op = "get_time" /\ rb.acquired /\ rb.segdone > 0 /\ rb.delay > 0
  /\ us_latency > 0 /\ obs.value > us_latency
\* C7 as stated: "no value" whenever the ring buffer is not acquired or the rate is 0
ClockTimeNoneUnacquired ==
  obs.op = "get_time"
    => obs.value = IF ~rb_is_acquired(ringbuffer, rb) \/ rb.spec.rate = 0
                   THEN NONE ELSE FormulaTime

\* C8: provide_clock hands out the provided clock if and only if a ring buffer exists,
\* it is acquired, and the provide_clock property is true.
ProvideClockIff ==
  obs.op = "provide_clock"
    => (obs.value = 1 <=> (ringbuffer /\ rb.acquired /\ provide_clock))
\* C8 witness: the clock was handed out by a negotiated sink
ProvideClockReached ==
  obs.op = "provide_clock" /\ obs.value = 1 /\ state \in { "PAUSED", "PLAYING" }

\* C9: flush-stop sets avg_skew and next_sample to none and clears the ring buffer's
\* flushing flag, whatever they were, and changes nothing else; a flush-stop that
\* follows a flush-stop changes nothing at all.
FlushStopEffect ==
  [][ obs'.op = "flush_stop" =>
        /\ avg_skew' = NONE
        /\ next_sample' = NONE
        /\ rb' = IF ringbuffer THEN [rb EXCEPT !.flushing = FALSE] ELSE rb
        /\ UNCHANGED <<state, trans, ringbuffer, last_align, us_latency, provide_clock,
                       slave_method, cal, last_time, pipevars, threadvars, clk_reads>>
        /\ obs.op = "flush_stop" => UNCHANGED <<rb, avg_skew, next_sample>> ]_vars
\* C9 witness: a flush-stop after a buffer was rendered
FlushStopReached ==
  /\ obs.op = "flush_stop" /\ nbuf >= 1 /\ upstream_ts > 0 /\ rb.acquired
  /\ avg_skew = NONE /\ next_sample = NONE /\ ~rb.flushing

\* C10 (as amended): immediately after flush-stop, and after async_play under a foreign
\* pipeline clock, avg_skew and next_sample are both none.
ResyncClearsBoth ==
  (obs.op = "flush_stop" \/ (obs.op = "paused_to_playing" /\ clock = "other"))
    => (avg_skew = NONE /\ next_sample = NONE)
\* C10 witness: playback resumed under a foreign clock after a buffer was rendered
ResyncReached ==
  obs.op = "paused_to_playing" /\ clock = "other" /\ nbuf >= 1 /\ upstream_ts > 0
\* C10 as stated: after flush-stop, async_play and a rendered DISCONT buffer, avg_skew
\* is none if and only if next_sample is none
ResyncEquivalence ==
  (\/ obs.op \in { "flush_stop", "paused_to_playing" }
   \/ obs.op = "render" /\ obs.discont /\ obs.path \in SyncedPaths /\ obs.ret = "ok")
    => ((avg_skew = NONE) <=> (next_sample = NONE))

(* ------------------------------------------------------------------ *)
(* Properties of the commit loop                                       *)
(* ------------------------------------------------------------------ *)
\* the last operation was a render that went through the commit loop and returned ok
Committed == obs.op = "render" /\ obs.ret = "ok" /\ obs.path \in CommitPaths

\* C11 (as amended): for every buffer render commits and answers ok, either the commit
\* was uninterrupted and next_sample is left just past the buffer's samples (its first
\* sample plus the output count, the first sample being the previous next_sample when
\* the buffer was aligned), or the commit was interrupted and next_sample is none when
\* the following buffer is processed.
CommitLeavesNextSample ==
  Committed =>
    /\ obs.ncommit = 1 => /\ next_sample = obs.c_offset + obs.c_out
                          /\ obs.path = "aligned" => obs.c_offset = obs.ns_align
    /\ obs.ncommit > 1 => next_sample = NONE
\* C11 witness: a commit that was interrupted by a pause and finished after the resume
CommitInterruptedReached ==
  Committed /\ obs.ncommit = 2 /\ obs.c_in > 0 /\ next_sample = NONE
\* C11 as stated: a committed buffer that had a previous position to align with either
\* starts at that position and is committed without interruption, or leaves next_sample
\* none
ContiguousOrCleared ==
  (Committed /\ obs.ns_align # NONE)
    => \/ obs.c_offset = obs.ns_align /\ obs.ncommit = 1
       \/ next_sample = NONE

\* C12 (as amended): in every reachable state in which next_sample is set, no render
\* call is inside its commit loop and the ring buffer is not flushing, next_sample is
\* greater than or equal to the ring buffer's write position (the position just past the
\* last sample the renderer committed).
NextSampleNotBehind ==
  (next_sample # NONE /\ pc = "idle" /\ ~rb.flushing) => next_sample >= rb.written
\* C12 witness: next_sample was set by a render that moved the write position
NextSampleSetReached ==
  /\ next_sample # NONE /\ pc = "idle" /\ ~rb.flushing
  /\ obs.op = "render" /\ nbuf = 2 /\ rb.written > 0 /\ next_sample = rb.written
\* C12 as stated: next_sample, when set, is never behind the write position
NextSampleNeverBehind ==
  next_sample # NONE => next_sample >= rb.written

(* ------------------------------------------------------------------ *)
(* Properties of skew slaving                                          *)
(* ------------------------------------------------------------------ *)
\* the drift skew slaving tolerates: the length of a segment, and half of it
SegTime == rb.latency_time * 1000
SegTime2 == CDiv(SegTime, 2)

\* C13 (as amended): in skew slave mode, when the pipeline clock runs steadily faster
\* than the provided clock, avg_skew (internal minus reference) eventually falls below
\* -segtime/2; a render that finds it there increases cexternal by exactly segtime and
\* raises avg_skew by segtime, once, and a render that finds it within segtime/2 of 0
\* corrects nothing.
FastReferenceRaises ==
  /\ <>(obs.op = "skew_slaving" /\ obs.avg < -SegTime2)
  /\ [](obs.op = "skew_slaving" =>
          /\ obs.avg < -SegTime2 => /\ cal.cexternal = obs.cext_in + SegTime
                                    /\ avg_skew = obs.avg + SegTime
          /\ Abs(obs.avg) <= SegTime2 => /\ cal.cexternal = obs.cext_in
                                         /\ avg_skew = obs.avg)
\* C13 witness: the faster pipeline clock has pulled the average below -segtime/2 and
\* the calibration was moved
FastReferenceReached ==
  /\ obs.op = "skew_slaving" /\ obs.avg < -SegTime2 /\ obs.warn = 1
  /\ nbuf >= 2 /\ avg_skew > 0
\* C13 as stated: every correction made while the pipeline clock runs faster lowers
\* cexternal by segtime (or to 0) and lowers avg_skew by segtime
FastReferenceLowers ==
  [](obs.op = "skew_slaving" /\ obs.warn = 1 =>
       /\ cal.cexternal = IF obs.cext_in > SegTime THEN obs.cext_in - SegTime ELSE 0
       /\ avg_skew = obs.avg - SegTime)

(* ------------------------------------------------------------------ *)
(* Cancellation of a suspended render                                  *)
(* ------------------------------------------------------------------ *)
\* a render call is suspended in its commit loop
Suspended == pc \in { "commit_wait", "preroll_wait" }

\* C14: if flush-start or the change from PAUSED to READY sets the ring buffer flushing
\* while a render call is suspended in the commit loop, that render call eventually
\* returns, with the stopping result, and it does not go back to committing.
CancelStopsRender ==
  /\ (Suspended /\ rb.flushing)
       ~> (pc = "idle" /\ obs.op = "render" /\ obs.ret = "stopping")
  /\ [](obs.op = "render" /\ obs.ret = "ok" => ~rb.flushing \/ obs.c_in = 0)
\* C14 witness: a render that was suspended when the change to READY began has returned
\* stopping
CancelReached ==
  /\ pc = "idle" /\ obs.op = "render" /\ obs.ret = "stopping" /\ obs.ncommit >= 1
  /\ trans = "p2r" /\ rb.flushing /\ rb.written > 0

(* ------------------------------------------------------------------ *)
(* Latency reporter                                                    *)
(* ------------------------------------------------------------------ *)
\* the latency of the device: seglatency segments of segsize bytes, in nanoseconds
DeviceLatency ==
  gst_util_uint64_scale(rb.spec.seglatency * rb.spec.segsize, GST_SECOND,
                        rb.spec.rate * rb.spec.bytes_per_sample)

\* the upstream query of the last latency query succeeded
QueryAnswered == obs.op = "query" /\ obs.asked.res
BothLive == obs.asked.live /\ obs.asked.us_live

\* C15: after a latency query whose upstream query succeeded with both ends live, the
\* reply's minimum is the device latency plus the upstream minimum, its maximum is that
\* minimum plus the upstream maximum (0 when upstream is unbounded), and us_latency is
\* the upstream minimum
LiveLatencyReply ==
  (QueryAnswered /\ BothLive) =>
    /\ obs.reply.res
    /\ obs.reply.min = DeviceLatency + obs.asked.min_l
    /\ obs.reply.max = obs.reply.min + (IF obs.asked.max_l = NONE THEN 0 ELSE obs.asked.max_l)
    /\ us_latency = obs.asked.min_l

\* a live query with a positive upstream minimum and an unbounded upstream maximum
LiveLatencyReached ==
  /\ QueryAnswered /\ BothLive
  /\ obs.asked.min_l > 0
  /\ obs.asked.max_l = NONE
  /\ obs.reply.min > obs.asked.min_l

\* C16 (as stated): after a latency query whose upstream query succeeded with the two
\* ends not both live, the reply is (live = false, min = 0, max = unbounded)
NotLiveReplyIsNotLive ==
  (QueryAnswered /\ ~BothLive) =>
    /\ obs.reply.res
    /\ ~obs.reply.live
    /\ obs.reply.min = 0
    /\ obs.reply.max = NONE

\* C16 (amended): after a latency query whose upstream query succeeded with the two ends
\* not both live, the reply carries the sink's own live flag, min = 0 and max =
\* unbounded
NotLiveReply ==
  (QueryAnswered /\ ~BothLive) =>
    /\ obs.reply.res
    /\ obs.reply.live = obs.asked.live
    /\ obs.reply.min = 0
    /\ obs.reply.max = NONE

\* a query answered by a live sink whose upstream is not live
NotLiveReached ==
  /\ QueryAnswered
  /\ obs.asked.live /\ ~obs.asked.us_live
  /\ obs.reply.live
  /\ obs.reply.max = NONE

(* ------------------------------------------------------------------ *)
(* Skew convergence                                                    *)
(* ------------------------------------------------------------------ *)
\* the last `run.rounds` buffers observed the same skew `run.skew` and none of them
\* corrected the calibration
ConstantSkew == obs.op = "skew_slaving" /\ run.rounds > 0

\* a < b / 2^k over the rationals, for integers a, b and k >= 0
BelowHalved(a, b, k) == a < 0 \/ (b > 0 /\ a <= (b - 1) \div (2 ^ k))

\* the distance of the average from the skew before the first buffer of the run; the
\* first observation of all replaces the average, which leaves no distance
InitialError == IF run.avg0 = NONE THEN 0 ELSE Abs(run.avg0 - run.skew)

\* buffers after which the weight (31/32)^n of the old average has fallen below 1/2
HalvingRounds == 22

\* C17 (as stated): after N buffers in a row that observed the constant skew c,
\* |avg_skew - c| < c / 2^floor(N/5)
SkewHalvesEveryFive ==
  ConstantSkew => BelowHalved(Abs(avg_skew - run.skew), run.skew, run.rounds \div 5)

\* C17 (amended): after N buffers in a row that observed the constant skew c without a
\* correction of the calibration, |avg_skew - c| < |a - c| / 2^floor(N/22) + 32, where
\* a is the average before those buffers (a = c when the first of them is the first
\* observation of all)
SkewConverges ==
  ConstantSkew =>
    BelowHalved(Abs(avg_skew - run.skew) - SKEW_WINDOW, InitialError,
                run.rounds \div HalvingRounds)

\* 44 buffers in a row observed a skew the average started 19.2 ms away from
SkewConvergedReached ==
  /\ ConstantSkew
  /\ run.rounds = 2 * HalvingRounds
  /\ run.avg0 # NONE
  /\ InitialError > 16000 * GST_USECOND
  /\ avg_skew # run.skew

(* ------------------------------------------------------------------ *)
(* Skew slaving, one render                                            *)
(* ------------------------------------------------------------------ *)
\* C18: a skew-slaved render observes skew = itime_norm - etime_norm, replaces
\* avg_skew by it on the first observation and by (31*avg_skew + skew)/32 afterwards;
\* an average above segtime/2 lowers cexternal by segtime (not below 0) and the average
\* by segtime, an average below -segtime/2 raises both by segtime, any other average
\* leaves cexternal alone; cinternal and the rate are never changed
SkewUpdateRule ==
  [][obs'.op = "skew_slaving" =>
       LET itime_norm == IF InternalTime > cal.cinternal THEN InternalTime - cal.cinternal
                         ELSE 0
           etime_norm == IF ExtTime > cal.cexternal THEN ExtTime - cal.cexternal ELSE 0
           skew       == itime_norm - etime_norm
           avg        == IF avg_skew = NONE THEN skew
                         ELSE CDiv(SKEW_WEIGHT * avg_skew + skew, SKEW_WINDOW)
       IN  /\ obs'.skew = skew
           /\ IF 2 * avg > SegTime
              THEN /\ cal'.cexternal = (IF cal.cexternal > SegTime
                                        THEN cal.cexternal - SegTime ELSE 0)
                   /\ avg_skew' = avg - SegTime
              ELSE IF 2 * avg < -SegTime
              THEN /\ cal'.cexternal = cal.cexternal + SegTime
                   /\ avg_skew' = avg + SegTime
              ELSE /\ cal'.cexternal = cal.cexternal
                   /\ avg_skew' = avg
           /\ cal'.cinternal = cal.cinternal
           /\ cal'.rate_num = cal.rate_num
           /\ cal'.rate_denom = cal.rate_denom]_vars

\* an averaged observation went above segtime/2 and lowered cexternal by segtime
SkewCorrectionReached ==
  /\ obs.op = "skew_slaving"
  /\ obs.avg_in # NONE
  /\ obs.avg > SegTime2
  /\ obs.cext_in > SegTime
  /\ cal.cexternal = obs.cext_in - SegTime
  /\ avg_skew = obs.avg - SegTime

\* C19: the times skew slaving yields are the conversion of the times it was given
\* under rate 1/1, whatever rate the calibration has stored
SkewIgnoresSpeed ==
  obs.op = "skew_slaving" =>
    /\ obs.render_start = clock_convert_external(obs.in_start, cal.cinternal, cal.cexternal,
                                                 1, 1, us_latency)
    /\ obs.render_stop = clock_convert_external(obs.in_stop, cal.cinternal, cal.cexternal,
                                                1, 1, us_latency)

(* ------------------------------------------------------------------ *)
(* Master mode                                                         *)
(* ------------------------------------------------------------------ *)
\* a step in which render plans a buffer while the pipeline runs on the sink's own clock
MasterRender == pc = "idle" /\ obs'.op = "render" /\ clock = "provided"

\* C20: render under the sink's own clock leaves the calibration and avg_skew as they
\* were whatever slave_method is, hands the alignment the next_sample it found, and
\* places a synced buffer where the 'none' conversion of its running time puts it
MasterNeverSlaves ==
  [][MasterRender =>
       /\ avg_skew' = avg_skew
       /\ cal' = cal
       /\ obs'.path \in { "no_align", "aligned", "resync" } =>
            /\ obs'.ns_align = next_sample
            /\ obs'.pos =
                 gst_util_uint64_scale(
                   clock_convert_external(obs'.in_start, cal.cinternal, cal.cexternal,
                                          cal.rate_num, cal.rate_denom, us_latency),
                   rb.spec.rate, GST_SECOND)
            /\ obs'.render_stop - obs'.align =
                 gst_util_uint64_scale(
                   clock_convert_external(obs'.in_stop, cal.cinternal, cal.cexternal,
                                          cal.rate_num, cal.rate_denom, us_latency),
                   rb.spec.rate, GST_SECOND)]_vars

\* a buffer was aligned under the sink's own clock with slave-method skew, with a
\* calibration that an earlier spell under a foreign clock has left behind
MasterRenderReached ==
  /\ obs.op = "render"
  /\ obs.ret = "ok"
  /\ clock = "provided"
  /\ slave_method = "skew"
  /\ obs.path = "aligned"
  /\ cal.cexternal > 0
  /\ obs.in_start # NONE

(* ------------------------------------------------------------------ *)
(* Alignment of start and stop                                         *)
(* ------------------------------------------------------------------ *)
\* a step in which render plans a buffer that it aligns with the previous one
AlignedRender == pc = "idle" /\ obs'.op = "render" /\ obs'.path = "aligned"

\* render is slaved to a foreign pipeline clock with slave-method resample
SlavedResample == clock # "provided" /\ slave_method = "resample"

\* the sample position of the running time t under the calibration render leaves
\* behind, before any alignment (lines 1139-1154)
UnalignedPosition(t) ==
  LET guarded == SlavedResample /\ cal'.rate_num = 0
      num     == IF guarded THEN 1 ELSE cal'.rate_num
      denom   == IF guarded THEN 1 ELSE cal'.rate_denom
  IN  gst_util_uint64_scale(
        clock_convert_external(t, cal'.cinternal, cal'.cexternal, num, denom, us_latency),
        rb.spec.rate, GST_SECOND)

\* C21: when a buffer is aligned, align is added to render_start; it is added to
\* render_stop too unless render is slaved with slave-method resample, where
\* render_stop keeps its unaligned slaved value; out_samples is render_stop minus
\* render_start either way
AlignMovesStartAndStop ==
  [][AlignedRender =>
       /\ obs'.render_start = UnalignedPosition(obs'.in_start) + obs'.align
       /\ obs'.render_stop = IF SlavedResample THEN UnalignedPosition(obs'.in_stop)
                             ELSE UnalignedPosition(obs'.in_stop) + obs'.align
       /\ obs'.c_out = obs'.render_stop - obs'.render_start]_vars

\* a buffer was moved onto next_sample under slave-method resample and its output
\* count is not the distance of its unaligned positions
ResampleAlignedReached ==
  /\ obs.op = "render" /\ obs.path = "aligned" /\ obs.ret = "ok"
  /\ clock = "other" /\ slave_method = "resample"
  /\ obs.align # 0
  /\ obs.render_stop - obs.pos # obs.c_out

(* ------------------------------------------------------------------ *)
(* Resync and last_align                                               *)
(* ------------------------------------------------------------------ *)
\* the last operation was a render that found its buffer half a second or more away
\* from next_sample
Resynced == obs.op = "render" /\ obs.path = "resync"

\* C22 (as stated): a resync sets align = 0 and leaves last_align as it was before
ResyncKeepsLastAlign ==
  Resynced => obs.align = 0 /\ last_align = obs.la_in

\* C22 (amended): a resync sets align = 0 and records it: last_align is 0 afterwards,
\* whatever it was before
ResyncZeroesLastAlign ==
  Resynced => obs.align = 0 /\ last_align = 0

\* a resync found last_align at -1, where Ready->Paused had left it
ResyncOverwritesReached ==
  /\ Resynced
  /\ obs.la_in = -1
  /\ last_align = 0
  /\ obs.warn = 1

(* ------------------------------------------------------------------ *)
(* The commit loop and next_sample                                     *)
(* ------------------------------------------------------------------ *)
\* C23: when render completes its commit loop, next_sample is the position just past
\* the committed samples if the first commit call wrote everything, and none if a
\* commit call came back short and the loop went on after the preroll wait; the buffer
\* rendered right after such an interrupted one is not aligned
CommitLoopResult ==
  /\ [](Committed =>
          next_sample = IF obs.ncommit = 1 THEN obs.c_offset + obs.c_out ELSE NONE)
  /\ [][(Committed /\ obs.ncommit > 1 /\ obs'.op = "render" /\ obs'.path \in CommitPaths)
          => obs'.path \in { "no_sync", "no_align" } /\ obs'.align = 0]_vars

\* a buffer that was to be aligned was interrupted by a pause and finished after the
\* resume, leaving no position to align the next buffer with
InterruptedAlignedReached ==
  /\ Committed
  /\ obs.path = "aligned"
  /\ obs.ncommit = 2
  /\ next_sample = NONE
  /\ rb.written = obs.c_offset + obs.c_out

(* ------------------------------------------------------------------ *)
(* Clipping and the output sample count                                *)
(* ------------------------------------------------------------------ *)
\* the last operation was a render that reached the commit loop
ReachedCommit == obs.op = "render" /\ obs.path \in CommitPaths

\* C24: for every buffer that reaches the commit loop, the out_samples passed to commit
\* is render_stop - render_start
OutSamplesIsDistance ==
  ReachedCommit => obs.c_out = obs.render_stop - obs.render_start

\* a step in which render takes in a buffer that carries a timestamp
TimedRender == pc = "idle" /\ obs'.op = "render" /\ obs'.time # NONE /\ rb_is_acquired(ringbuffer, rb)

\* the samples of the buffer just rendered and the time at which they end
SamplesIn == obs'.size \div rb.spec.bytes_per_sample
StopIn == obs'.time + gst_util_uint64_scale(SamplesIn, GST_SECOND, rb.spec.rate)

\* the part of the buffer before the segment's start and after the segment's stop, in
\* samples at the ring buffer's rate
HeadCut ==
  IF segment.start > obs'.time
  THEN gst_util_uint64_scale(segment.start - obs'.time, rb.spec.rate, GST_SECOND) ELSE 0
TailCut ==
  IF segment.stop # NONE /\ StopIn > segment.stop
  THEN gst_util_uint64_scale(StopIn - segment.stop, rb.spec.rate, GST_SECOND) ELSE 0

\* C25: a timestamped buffer that the segment clips away entirely is dropped: render
\* answers ok, commits nothing and leaves next_sample, last_align, avg_skew, the
\* calibration and the ring buffer as they were; a buffer that overlaps the segment is
\* committed with its sample count less the clipped head and the clipped tail
ClipToSegment ==
  [][(TimedRender /\ obs'.size % rb.spec.bytes_per_sample = 0) =>
       IF gst_segment_clip(segment, obs'.time, StopIn).ok
       THEN /\ obs'.path \in CommitPaths
            /\ obs'.c_in = SamplesIn - HeadCut - TailCut
       ELSE /\ obs'.path = "out_of_segment"
            /\ obs'.ret = "ok"
            /\ obs'.ncommit = 0
            /\ pc' = "idle"
            /\ UNCHANGED <<next_sample, last_align, avg_skew, cal, rb>>]_vars

\* a buffer that reached over the segment's stop was committed with its tail cut off,
\* after a buffer that started before the segment had been rendered
ClippedReached ==
  /\ ReachedCommit /\ obs.ret = "ok"
  /\ obs.time # NONE
  /\ segment.stop # NONE
  /\ obs.time + gst_util_uint64_scale(obs.size \div rb.spec.bytes_per_sample, GST_SECOND,
                                      rb.spec.rate) > segment.stop
  /\ obs.c_in > 0
  /\ obs.c_in < obs.size \div rb.spec.bytes_per_sample
  /\ nbuf = 2

(* ------------------------------------------------------------------ *)
(* The fast-path sample position                                       *)
(* ------------------------------------------------------------------ *)
\* a step in which render places a buffer without a timestamp or without sync
FastPathRender == pc = "idle" /\ obs'.op = "render" /\ obs'.path = "no_sync"

\* C26: on the fast path the sample position is next_sample, or 0 if next_sample is
\* none; if the segment of that position is behind the segment the device is
\* processing, the position is the start of the segment after that one; the position
\* is never in a segment the device has already consumed
FastPathPosition ==
  [][FastPathRender =>
       LET sample == IF next_sample = NONE THEN 0 ELSE next_sample
           sps    == rb.spec.segsize \div rb.spec.bytes_per_sample
       IN  /\ obs'.render_start = IF sample \div sps < rb.segdone
                                  THEN (rb.segdone + 1) * sps ELSE sample
           /\ obs'.render_start \div sps >= rb.segdone
           /\ obs'.render_stop = obs'.render_start + obs'.c_in]_vars

\* a buffer that would have been appended in a segment the device had consumed was
\* placed at the start of the segment after the one being played
FastPathSkipReached ==
  /\ obs.op = "render" /\ obs.path = "no_sync"
  /\ obs.ns_align # NONE
  /\ rb.segdone = 1
  /\ obs.ns_align < rb.spec.segsize \div rb.spec.bytes_per_sample
  /\ obs.render_start = 2 * (rb.spec.segsize \div rb.spec.bytes_per_sample)

(* ------------------------------------------------------------------ *)
(* Paused to Playing                                                   *)
(* ------------------------------------------------------------------ *)
\* a step that takes the sink from PAUSED to PLAYING
Plays == state = "PAUSED" /\ obs'.op = "paused_to_playing"

\* the calibration is re-seeded from the two clocks with its rate kept, and avg_skew
\* and next_sample are reset
Reseeded ==
  /\ cal' = [cal EXCEPT !.cinternal = InternalTime, !.cexternal = ExtTime]
  /\ avg_skew' = NONE
  /\ next_sample' = NONE

\* C27 (as stated): every change from PAUSED to PLAYING issues may_start(true) and then
\* start() on the ring buffer; the calibration is re-seeded and avg_skew and next_sample
\* are reset only when the pipeline clock is not the sink's own
PlayAlwaysStarts ==
  [][Plays =>
       /\ rb' = rb_start(rb_may_start(rb, TRUE))
       /\ clock = "other" => Reseeded
       /\ clock = "provided" => UNCHANGED <<cal, avg_skew, next_sample>>]_vars

\* C27 (amended): every change from PAUSED to PLAYING issues may_start(true); only when
\* the pipeline has a clock that is not the sink's own is the calibration re-seeded,
\* are avg_skew and next_sample reset and is start() issued
PlayStartsWhenSlaved ==
  [][Plays =>
       IF clock = "other"
       THEN /\ rb' = rb_start(rb_may_start(rb, TRUE))
            /\ Reseeded
       ELSE /\ rb' = rb_may_start(rb, TRUE)
            /\ UNCHANGED <<cal, avg_skew, next_sample>>]_vars

\* the sink went to PLAYING under its own clock with a negotiated ring buffer, which
\* may start now but was not started
PlayUnstartedReached ==
  /\ obs.op = "paused_to_playing"
  /\ clock = "provided"
  /\ rb.acquired /\ ~rb.flushing
  /\ rb.may_start
  /\ rb.run # "started"

(* ------------------------------------------------------------------ *)
(* Release and close on the way down                                   *)
(* ------------------------------------------------------------------ *)
\* the parent's change of Paused->Ready and of Ready->Null, seen as the step that
\* moves `state`
GoesToReady == state = "PAUSED" /\ state' = "READY"
GoesToNull == state = "READY" /\ state' = "NULL"

\* C28: whatever state changes and set_caps calls came before, Paused->Ready issues
\* set_flushing(true) in a step of its own before the parent's change and release()
\* with it; Ready->Null issues release() and then close_device(); the device is never
\* closed while the ring buffer is acquired, and the ring buffer is not acquired
\* while the sink is in NULL
ReleaseBeforeClose ==
  /\ [](state = "NULL" => ~rb.acquired)
  /\ [](~rb.open => ~rb.acquired)
  /\ [][(trans = "none" /\ trans' = "p2r")
          => state' = state /\ rb' = rb_set_flushing(rb, TRUE)]_vars
  /\ [][GoesToReady => trans = "p2r" /\ rb' = rb_release(rb)]_vars
  /\ [][GoesToNull => rb' = rb_close_device(rb_release(rb))]_vars

\* Ready->Null has found the ring buffer still acquired by a set_caps, and has
\* released it and closed the device
DefensiveReleaseReached ==
  /\ obs.op = "ready_to_null"
  /\ obs.acquired_in
  /\ state = "NULL"
  /\ ~rb.acquired
  /\ ~rb.open

(* ------------------------------------------------------------------ *)
(* End of stream                                                       *)
(* ------------------------------------------------------------------ *)
\* an EOS event is handled in this step
Drains == obs'.op = "eos"
\* the time drain hands to wait_eos for next_sample
EosTime ==
  LET time == gst_util_uint64_scale(next_sample, GST_SECOND, rb.spec.rate)
  IN  IF time > base_time THEN time - base_time ELSE 0

\* C29: on EOS the ring buffer is started if and only if it is acquired; with
\* next_sample set the sink waits for the time of next_sample at the ring buffer's rate
\* less base_time, never below 0, and next_sample is none afterwards; with next_sample
\* none there is no wait and, the start apart, nothing changes
DrainWaitsForNextSample ==
  [][Drains =>
       /\ rb' = IF rb_is_acquired(ringbuffer, rb) THEN rb_start(rb) ELSE rb
       /\ next_sample' = NONE
       /\ IF next_sample # NONE
          THEN obs'.path = "wait_eos" /\ obs'.value = EosTime
          ELSE obs'.path = "none"
       /\ UNCHANGED <<state, trans, ringbuffer, last_align, avg_skew, us_latency,
                      provide_clock, slave_method, cal, last_time, pipevars, threadvars,
                      clk_reads>>]_vars

\* drain has started a stopped ring buffer and waited for a time after base_time
DrainWaitReached ==
  /\ obs.op = "eos"
  /\ obs.path = "wait_eos"
  /\ obs.value > 0
  /\ base_time > 0
  /\ rb.run = "started"
  /\ next_sample = NONE
DrainClampReached ==
  /\ obs.op = "eos"
  /\ obs.path = "wait_eos"
  /\ obs.value = 0
  /\ base_time > 0
DrainNoWaitReached ==
  /\ obs.op = "eos"
  /\ obs.path = "none"
  /\ rb.acquired
DrainUnacquiredReached ==
  /\ obs.op = "eos"
  /\ ~rb.acquired
  /\ rb.spec.rate # 0

(* ------------------------------------------------------------------ *)
(* Play, drain and pause                                               *)
(* ------------------------------------------------------------------ *)
\* the state change is between its may_start(FALSE) and its pause()
InsidePause == trans = "pl2pa"
\* this step is a drain, or an async_play, that calls gst_ring_buffer_start
IssuesStart == obs'.op \in { "drain_start", "async_play" } /\ obs'.path = "start"

\* C30 (as stated): neither drain nor async_play issues its start of the ring buffer
\* between the may_start(false) and the pause() of a Playing->Paused
StartNeverInsidePause == [][IssuesStart => ~InsidePause]_vars

\* C30 (amended): async_play never runs between the may_start(false) and the pause()
\* of a Playing->Paused; the start a drain issues between the two is refused by the
\* ring buffer; when the Playing->Paused has returned the ring buffer may not start
\* and is not running
AsyncPlayOutsidePause ==
  /\ [][obs'.op = "async_play" => ~InsidePause]_vars
  /\ [][(obs'.op = "drain_start" /\ InsidePause) => rb' = rb]_vars
  /\ [](obs.op = "playing_to_paused" => ~rb.may_start /\ rb.run # "started")

\* a drain has issued its start on an acquired ring buffer that is not flushing, inside
\* a Playing->Paused, and the ring buffer has not started
DrainInsidePauseReached ==
  /\ obs.op = "drain_start"
  /\ obs.path = "start"
  /\ InsidePause
  /\ rb.acquired
  /\ ~rb.flushing
  /\ rb.run # "started"

(* ------------------------------------------------------------------ *)
(* A stop before the start                                             *)
(* ------------------------------------------------------------------ *)
\* render has reached the commit loop with its stop position before its start
StopBeforeStart ==
  /\ obs.op = "render"
  /\ obs.path \in CommitPaths
  /\ obs.render_start # NONE
  /\ obs.render_stop < obs.render_start

\* C31: when render leaves the alignment step with render_stop before render_start,
\* the buffer was aligned under a foreign clock with slave-method resample, and commit
\* is still called, with the negative difference render_stop - render_start as
\* out_samples
NegativeOutSamples ==
  StopBeforeStart =>
    /\ obs.path = "aligned"
    /\ SlavedResample
    /\ obs.align > 0
    /\ obs.ncommit >= 1
    /\ obs.c_out = obs.render_stop - obs.render_start
    /\ obs.c_out < 0

\* a buffer shorter than its alignment has been committed with a negative out_samples
NegativeOutSamplesReached ==
  /\ StopBeforeStart
  /\ obs.ret = "ok"
  /\ obs.c_out < 0
  /\ obs.align > obs.c_in

(* ------------------------------------------------------------------ *)
(* Play while a render is suspended                                    *)
(* ------------------------------------------------------------------ *)
\* the sink has just gone to PLAYING under a foreign clock, which has re-seeded the
\* calibration and reset next_sample, while a render call is suspended in commit
PlayedDuringCommit ==
  /\ obs.op = "paused_to_playing"
  /\ clock = "other"
  /\ pc = "commit_wait"
\* the suspended render call returns in this step
RenderReturns == pc # "idle" /\ pc' = "idle" /\ obs'.op = "render"

\* C32: a render call that was suspended in the commit loop while the sink went from
\* Paused to Playing under a foreign clock does not overwrite the reset of next_sample
\* when it completes: next_sample is still none, so that the next buffer is not
\* aligned to a position computed under the old calibration
PlayResetSurvivesRender ==
  [][(PlayedDuringCommit /\ RenderReturns) => next_sample' = NONE]_vars

(* ------------------------------------------------------------------ *)
(* next_sample after a cancelled render                                *)
(* ------------------------------------------------------------------ *)
\* a render call that was suspended in its commit loop returns stopping in this step
ReturnsStopping == RenderReturns /\ obs'.ret = "stopping"
\* the ring buffer stops flushing in this step
FlushingEnds == rb.flushing /\ ~rb'.flushing
\* a render call is entered in this step and compares its buffer with next_sample
AlignsAgainstNextSample ==
  pc = "idle" /\ obs'.op = "render" /\ obs'.path \in { "aligned", "resync" }

\* C33 (as stated): a render call that returns stopping after it was suspended in
\* commit returns while the ring buffer is flushing and leaves next_sample at the
\* value it had before the call; flushing ends only with a reset of next_sample
\* (flush-stop, Ready->Paused), and no buffer is compared with next_sample while the
\* ring buffer is flushing
StoppingKeepsNextSample ==
  /\ [][ReturnsStopping => rb.flushing /\ next_sample' = obs'.ns_in]_vars
  /\ [][FlushingEnds => next_sample' = NONE]_vars
  /\ [][AlignsAgainstNextSample => ~rb.flushing]_vars

\* C33 (amended): a render call that returns stopping after it was suspended in commit
\* returns while the ring buffer is flushing and does not assign next_sample, which is
\* the value from before the call or none (when the call's skew correction forced a
\* resync or a Paused->Playing fell into the suspension); flushing ends only with a
\* reset of next_sample, and no buffer is compared with next_sample while the ring
\* buffer is flushing
StoppingNeverAdvancesNextSample ==
  /\ [][ReturnsStopping => /\ rb.flushing
                           /\ next_sample' = next_sample
                           /\ next_sample' \in { obs'.ns_in, NONE }]_vars
  /\ [][FlushingEnds => next_sample' = NONE]_vars
  /\ [][AlignsAgainstNextSample => ~rb.flushing]_vars

\* a suspended render has returned stopping and left the next_sample of the buffer
\* before it
StaleNextSampleReached ==
  /\ obs.op = "render"
  /\ obs.ret = "stopping"
  /\ obs.ncommit >= 1
  /\ rb.flushing
  /\ next_sample # NONE
  /\ next_sample = obs.ns_in
\* a suspended render whose skew correction forced a resync has returned stopping
StoppingAfterResyncReached ==
  /\ obs.op = "render"
  /\ obs.ret = "stopping"
  /\ obs.ns_in # NONE
  /\ obs.ns_align = NONE
  /\ next_sample = NONE
\* a suspended render has returned stopping after a Paused->Playing under a foreign
\* clock had reset next_sample
StoppingAfterPlayReached ==
  /\ obs.op = "render"
  /\ obs.ret = "stopping"
  /\ obs.ns_in # NONE
  /\ obs.ns_align # NONE
  /\ next_sample = NONE

(* ------------------------------------------------------------------ *)
(* Renegotiation                                                       *)
(* ------------------------------------------------------------------ *)
\* set_caps has just released and re-acquired the ring buffer
Renegotiated == obs.op = "setcaps" /\ obs.ret = "true" /\ rb.acquired
\* a render call is entered in this step
RenderEntered == pc = "idle" /\ obs'.op = "render"

\* C34: after a successful set_caps next_sample is none, and the buffer rendered next
\* is not compared with a next_sample from before the set_caps
SetCapsForcesResync ==
  /\ [](Renegotiated /\ state \in { "PAUSED", "PLAYING" } => next_sample = NONE)
  /\ [][(Renegotiated /\ RenderEntered) => obs'.path \notin { "aligned", "resync" }]_vars

(* ------------------------------------------------------------------ *)
(* Skew corrections and the initial last_align                         *)
(* ------------------------------------------------------------------ *)
\* one buffer has been rendered since Ready->Paused; it found next_sample none, so it
\* was not aligned and last_align is still the -1 that Ready->Paused gave it
NoBufferAlignedYet == nbuf = 1 /\ last_align = -1

\* render slaves a buffer with slave-method skew while next_sample is set
SkewRender ==
  /\ pc = "idle" /\ obs'.op = "render" /\ obs'.path \in { "no_align", "aligned", "resync" }
  /\ clock = "other" /\ slave_method = "skew"
  /\ next_sample # NONE

\* the average that render's skew observation yields before any correction
AverageObserved == SkewAverage(avg_skew, SkewObserved)

\* C35: a skew correction hands the alignment no next_sample only when a buffer has
\* been aligned before and last_align points against the correction or exceeds a
\* segment; with last_align still at the -1 of Ready->Paused neither branch does
ResyncOnlyAfterRealAlignment ==
  [][(SkewRender /\ obs'.ns_align = NONE) =>
       /\ ~NoBufferAlignedYet
       /\ \/ /\ AverageObserved > SegTime2
             /\ last_align < 0 \/ last_align > rb.spec.segsize \div rb.spec.bytes_per_sample
          \/ /\ AverageObserved < -SegTime2
             /\ last_align > 0 \/ -last_align > rb.spec.segsize \div rb.spec.bytes_per_sample]_vars

====
